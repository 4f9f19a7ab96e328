------------------------- MODULE EngineParityProofs -------------------------
(***************************************************************************)
(* The interpreter's control never leaves the program's tree, whatever the *)
(* program and whatever its evaluations answer, and the machine that is    *)
(* given its trace never reads past the end of it.  On a program without   *)
(* the features that part them, the two engines agree: the code of every   *)
(* statement has its place in the code emitted, and from any state of the  *)
(* interpreter the machine, given the trace so far, gets to the place of   *)
(* the statement at which the interpreter is, with the handlers of the try *)
(* bodies around it and the iterators of the loops around it.              *)
(***************************************************************************)
EXTENDS EngineParity, BytecodeVMProofs

-----------------------------------------------------------------------------
(***************************************************************************)
(* Places of a tree.                                                       *)
(***************************************************************************)

\* A block with statements has a first one.
LEMMA MinIsMember ==
  ASSUME NEW S, S \subseteq Nat, S # {}
  PROVE  Min(S) \in S
<1>1. PICK x \in S : \A y \in S : <<y, x>> \notin OpToRel(<, Nat)
  BY NatLessThanWellFounded, WFMin, Zenon
<1>2. ASSUME NEW y \in S
      PROVE  x <= y
  <2>1. ~ (y < x)
    BY <1>1 DEF OpToRel
  <2> QED BY <2>1
<1> QED
  BY <1>2 DEF Min

LEMMA TreeTypes ==
  ASSUME NEW p, IsTree(p)
  PROVE  /\ Len(p.kind) \in Nat
         /\ Stmts(p) \subseteq Nat
         /\ \A n \in Stmts(p) : p.kind[n] \in Kinds /\ p.test[n] \in Tests
  BY DEF IsTree, Stmts

\* A statement is begun at a place.
LEMMA StartIsPlace ==
  ASSUME NEW p, NEW n \in Stmts(p)
  PROVE  At("start", n, 0) \in Places(p)
  BY DEF Places

LEMMA TestIsPlace ==
  ASSUME NEW p, NEW n \in Stmts(p), p.kind[n] \in {"if", "switch", "while"},
         NEW i \in 1..Arms
  PROVE  At("test", n, i) \in Places(p) /\ At("rhs", n, i) \in Places(p)
  BY DEF Places

LEMMA BindIsPlace ==
  ASSUME NEW p, NEW n \in Stmts(p), p.kind[n] = "for"
  PROVE  At("bind", n, 0) \in Places(p)
  BY DEF Places

LEMMA EndIsPlace ==
  ASSUME NEW p, NEW n \in Stmts(p), NEW s \in Slots(p.kind[n])
  PROVE  At("end", n, s) \in Places(p)
  BY DEF Places

\* The block that a statement is in ends at a place.
LEMMA ParentIsPlace ==
  ASSUME NEW p, IsTree(p), NEW n \in Stmts(p)
  PROVE  At("end", p.parent[n], p.slot[n]) \in Places(p)
<1>1. CASE p.parent[n] = 0
  BY <1>1 DEF IsTree, Places
<1>2. CASE p.parent[n] # 0
  <2>1. p.parent[n] \in 0..(n - 1) /\ p.slot[n] \in Slots(p.kind[p.parent[n]])
    BY <1>2 DEF IsTree
  <2>2. Len(p.kind) \in Nat
    BY TreeTypes
  <2>3. p.parent[n] \in Stmts(p)
    BY <1>2, <2>1, <2>2 DEF Stmts
  <2> QED
    BY <2>1, <2>3, EndIsPlace
<1> QED
  BY <1>1, <1>2

\* Entering a block leads to a place when the block's end is one.
LEMMA EnterIsPlace ==
  ASSUME IsTree(prog), NEW n, NEW s, At("end", n, s) \in Places(prog)
  PROVE  Enter(n, s) \in Places(prog)
<1>1. Members(prog, n, s) \subseteq Stmts(prog) /\ Stmts(prog) \subseteq Nat
  BY TreeTypes DEF Members
<1>2. CASE Members(prog, n, s) = {}
  BY <1>2 DEF Enter
<1>3. CASE Members(prog, n, s) # {}
  <2>1. Min(Members(prog, n, s)) \in Stmts(prog)
    BY <1>1, <1>3, MinIsMember
  <2> QED
    BY <1>3, <2>1, StartIsPlace DEF Enter
<1> QED
  BY <1>2, <1>3

\* So does leaving a statement.
LEMMA AfterIsPlace ==
  ASSUME IsTree(prog), NEW n \in Stmts(prog)
  PROVE  After(n) \in Places(prog)
<1> DEFINE later == {c \in Members(prog, prog.parent[n], prog.slot[n]) : c > n}
<1>1. later \subseteq Stmts(prog) /\ Stmts(prog) \subseteq Nat
  BY TreeTypes DEF Members
<1>2. CASE later = {}
  BY <1>2, ParentIsPlace DEF After
<1>3. CASE later # {}
  <2>1. Min(later) \in Stmts(prog)
    <3> HIDE DEF later
    <3> QED
      BY <1>1, <1>3, MinIsMember
  <2> QED
    BY <1>3, <2>1, StartIsPlace DEF After
<1> QED
  BY <1>2, <1>3


-----------------------------------------------------------------------------
(***************************************************************************)
(* The ways a step moves control keep FlowOK.                              *)
(***************************************************************************)
LEMMA LeaveFlows ==
  ASSUME IsTree(prog), FlowOK, UNCHANGED prog, NEW n \in Stmts(prog),
         NEW f \in Flows, Leave(n, f)
  PROVE  ctl' \in Places(prog) /\ flow' = f
  BY AfterIsPlace, ParentIsPlace DEF Leave

LEMMA QuitFlows ==
  ASSUME IsTree(prog), FlowOK, UNCHANGED prog, NEW n \in Stmts(prog),
         NEW f \in Flows, f = "error" => error # NoError,
         NEW q \in HostErrors \cup {NoError}, Quit(n, f, q)
  PROVE  FlowOK'
<1>1. Leave(n, f) /\ queue' = q /\ error' = error
  BY DEF Quit
<1>2. ctl' \in Places(prog) /\ flow' = f
  BY <1>1, LeaveFlows
<1> QED
  BY <1>1, <1>2 DEF FlowOK

LEMMA CompleteFlows ==
  ASSUME IsTree(prog), FlowOK, UNCHANGED prog, NEW n \in Stmts(prog),
         NEW f \in Flows, f = "error" => error # NoError,
         NEW q \in HostErrors \cup {NoError}, Complete(n, f, q)
  PROVE  FlowOK'
<1>1. CASE f # "error" /\ q # NoError
  <2>1. Leave(n, "error") /\ error' = q /\ queue' = NoError
    BY <1>1 DEF Complete
  <2>2. ctl' \in Places(prog) /\ flow' = "error"
    BY <2>1, LeaveFlows DEF Flows
  <2> QED
    BY <1>1, <2>1, <2>2 DEF FlowOK, Flows
<1>2. CASE ~ (f # "error" /\ q # NoError)
  <2>1. Quit(n, f, q)
    BY <1>2 DEF Complete
  <2> QED
    BY <2>1, QuitFlows
<1> QED
  BY <1>1, <1>2

\* What an evaluation answers.
Answers ==
  [error : Errors \cup {NoError}, value : Nat, host : HostErrors \cup {NoError}]

LEMMA ValuesAreOutcomes ==
  ASSUME NEW V \in SUBSET Nat, NEW o \in Values(V)
  PROVE  o \in Answers /\ (o.error = NoError => o.value \in V)
<1> DEFINE Hosts == HostErrors \cup {NoError}
<1>1. CASE o \in [error : Errors, value : {0}, host : Hosts]
  <2>1. o.error # NoError
    BY <1>1, InterpreterAssumption
  <2> QED
    BY <1>1, <2>1 DEF Answers
<1>2. CASE o \in [error : {NoError}, value : V, host : Hosts]
  BY <1>2 DEF Answers
<1> QED
  BY <1>1, <1>2 DEF Values

LEMMA HeardIsQueued ==
  ASSUME FlowOK, NEW o \in Answers
  PROVE  Heard(o) \in HostErrors \cup {NoError}
  BY DEF FlowOK, Heard, Answers

LEMMA FailsFlows ==
  ASSUME IsTree(prog), FlowOK, UNCHANGED prog, NEW n \in Stmts(prog),
         NEW o \in Answers, Fails(n, o)
  PROVE  FlowOK'
<1>1. /\ o.error # NoError /\ error' = o.error
      /\ queue' = Heard(o) /\ Leave(n, "error")
  BY DEF Fails
<1>2. ctl' \in Places(prog) /\ flow' = "error"
  BY <1>1, LeaveFlows DEF Flows
<1>3. queue' \in HostErrors \cup {NoError}
  BY <1>1, HeardIsQueued
<1> QED
  BY <1>1, <1>2, <1>3 DEF FlowOK, Flows, Answers

LEMMA ProceedFlows ==
  ASSUME FlowOK, UNCHANGED prog, NEW c \in Places(prog),
         NEW q \in HostErrors \cup {NoError}, Proceed(c, q)
  PROVE  FlowOK'
  BY DEF Proceed, FlowOK, Flows

LEMMA DecideFlows ==
  ASSUME IsTree(prog), FlowOK, UNCHANGED prog, NEW n \in Stmts(prog),
         prog.kind[n] \in {"if", "switch", "while"}, NEW i \in 1..Arms,
         NEW holds \in BOOLEAN, NEW q \in HostErrors \cup {NoError},
         Decide(n, i, holds, q)
  PROVE  FlowOK'
<1> USE ArmsAssumption
<1>1. CASE holds
  <2> DEFINE s == IF prog.kind[n] = "while" THEN 1 ELSE i
  <2>1. s \in Slots(prog.kind[n])
    BY DEF Slots, Branchings, Loops
  <2>2. Enter(n, s) \in Places(prog)
    BY <2>1, EndIsPlace, EnterIsPlace
  <2>3. Proceed(Enter(n, s), q)
    BY <1>1 DEF Decide
  <2> HIDE DEF s
  <2> QED
    BY <2>2, <2>3, ProceedFlows
<1>2. CASE ~ holds /\ prog.kind[n] = "while"
  <2>1. Complete(n, "none", q)
    BY <1>2 DEF Decide
  <2> QED
    BY <2>1, CompleteFlows DEF Flows
<1>3. CASE ~ holds /\ prog.kind[n] # "while"
  <2> DEFINE c == IF i < Arms THEN At("test", n, i + 1) ELSE Enter(n, Arms + 1)
  <2>1. Arms + 1 \in Slots(prog.kind[n])
    BY <1>3 DEF Slots, Branchings, Loops
  <2>2. Enter(n, Arms + 1) \in Places(prog)
    BY <2>1, EndIsPlace, EnterIsPlace
  <2>3. i < Arms => i + 1 \in 1..Arms
    OBVIOUS
  <2>4. i < Arms => At("test", n, i + 1) \in Places(prog)
    BY <2>3, TestIsPlace
  <2>5. c \in Places(prog)
    BY <2>2, <2>4
  <2>6. Proceed(c, q)
    BY <1>3 DEF Decide
  <2> HIDE DEF c
  <2> QED
    BY <2>5, <2>6, ProceedFlows
<1> QED
  BY <1>1, <1>2, <1>3

-----------------------------------------------------------------------------
(***************************************************************************)
(* The trace.                                                              *)
(***************************************************************************)
TraceOK(p, t) == t \in Seq(Events(p)) /\ Len(t) <= MaxEvents

EventNames == {"act", "subject", "for", "case", "cond", "lhs", "rhs", "bind",
              "catch", "outputs"}

LEMMA RecordKeeps ==
  ASSUME IsTree(prog), UNCHANGED prog, TraceOK(prog, trace),
         NEW n \in 0..Len(prog.kind), NEW name \in EventNames, NEW i \in 0..Arms,
         NEW o, o.error \in Errors \cup HostErrors \cup {NoError}, o.value \in Nat,
         o.host \in HostErrors \cup {NoError},
         Record(<<n, name, i>>, o)
  PROVE  TraceOK(prog', trace') /\ Len(trace) <= Len(trace')
<1> DEFINE e == [site |-> <<n, name, i>>, error |-> o.error, value |-> o.value,
                 host |-> o.host]
<1>1. e \in Events(prog)
  BY DEF Events, EventNames
<1>2. trace' = Append(trace, e) /\ Len(trace) < MaxEvents
  BY DEF Record
<1> HIDE DEF e
<1>3. trace \in Seq(Events(prog)) /\ MaxEvents \in Nat
  BY InterpreterAssumption DEF TraceOK
<1>4. trace' \in Seq(Events(prog)) /\ Len(trace') = Len(trace) + 1
  BY <1>1, <1>2, <1>3
<1>5. Len(trace) \in Nat
  BY <1>3
<1> QED
  BY <1>2, <1>3, <1>4, <1>5 DEF TraceOK

LEMMA OutcomeRecorded ==
  ASSUME IsTree(prog), UNCHANGED prog, TraceOK(prog, trace),
         NEW n \in Stmts(prog), NEW name \in EventNames, NEW i \in 0..Arms,
         NEW o \in Answers, Record(<<n, name, i>>, o)
  PROVE  TraceOK(prog', trace') /\ Len(trace) <= Len(trace')
<1>1. n \in 0..Len(prog.kind)
  BY TreeTypes DEF Stmts
<1>2. /\ o.error \in Errors \cup HostErrors \cup {NoError} /\ o.value \in Nat
      /\ o.host \in HostErrors \cup {NoError}
  BY DEF Answers
<1> QED
  BY <1>1, <1>2, RecordKeeps

LEMMA SilentKeeps ==
  ASSUME UNCHANGED prog, TraceOK(prog, trace), Silent
  PROVE  TraceOK(prog', trace') /\ Len(trace) <= Len(trace')
<1>1. trace' = trace /\ Len(trace) \in Nat
  BY DEF Silent, TraceOK
<1> QED
  BY <1>1 DEF TraceOK


-----------------------------------------------------------------------------
(***************************************************************************)
(* One lemma per step of the interpreter.                                  *)
(***************************************************************************)
Kept == InterpTypeOK' /\ Len(trace) <= Len(trace')

\* What is left to show of a step that keeps the program, the iterators, the left
\* operand and the outcome.
LEMMA KeptBy ==
  ASSUME InterpTypeOK, UNCHANGED <<prog, outcome>>, FlowOK',
         lhs' \in 0..1, iter' \in [Stmts(prog) -> Cursors],
         TraceOK(prog', trace') /\ Len(trace) <= Len(trace')
  PROVE  Kept
  BY DEF InterpTypeOK, Kept, TraceOK

LEMMA TypeFacts ==
  ASSUME InterpTypeOK
  PROVE  /\ IsTree(prog) /\ FlowOK /\ TraceOK(prog, trace)
         /\ lhs \in 0..1 /\ iter \in [Stmts(prog) -> Cursors]
         /\ queue \in HostErrors \cup {NoError}
         /\ ctl \in Places(prog)
         /\ 0 \in 0..Arms
  BY ArmsAssumption DEF InterpTypeOK, FlowOK, TraceOK

LEMMA DoActKeeps ==
  ASSUME InterpTypeOK, NEW n \in Stmts(prog), NEW o \in Values({0}), DoAct(n, o)
  PROVE  Kept
<1>1. /\ Record(<<n, "act", 0>>, o)
      /\ \/ Fails(n, o)
         \/ /\ o.error = NoError
            /\ Complete(n, "none", Heard(o)) \/ Quit(n, "none", Heard(o))
      /\ UNCHANGED <<prog, lhs, iter, outcome>>
  BY DEF DoAct
<1>2. o \in Answers
  BY ValuesAreOutcomes
<1>3. TraceOK(prog', trace') /\ Len(trace) <= Len(trace')
  BY <1>1, <1>2, TypeFacts, OutcomeRecorded DEF EventNames
<1>4. Heard(o) \in HostErrors \cup {NoError}
  BY <1>2, TypeFacts, HeardIsQueued
<1>5. CASE Fails(n, o)
  <2>1. FlowOK'
    BY <1>1, <1>2, <1>5, TypeFacts, FailsFlows
  <2> QED
    BY <1>1, <1>3, <2>1, TypeFacts, KeptBy
<1>6. CASE Complete(n, "none", Heard(o)) \/ Quit(n, "none", Heard(o))
  <2>1. FlowOK'
    BY <1>1, <1>4, <1>6, TypeFacts, CompleteFlows, QuitFlows DEF Flows
  <2> QED
    BY <1>1, <1>3, <2>1, TypeFacts, KeptBy
<1> QED
  BY <1>1, <1>5, <1>6

LEMMA DoConditionKeeps ==
  ASSUME InterpTypeOK, NEW n \in Stmts(prog), DoCondition(n)
  PROVE  Kept
<1>1. /\ prog.kind[n] \in {"if", "while"} /\ Silent
      /\ Proceed(At("test", n, 1), queue)
      /\ UNCHANGED <<prog, lhs, iter, outcome>>
  BY DEF DoCondition, Starts
<1>2. At("test", n, 1) \in Places(prog)
  BY <1>1, ArmsAssumption, TestIsPlace
<1>3. FlowOK'
  BY <1>1, <1>2, TypeFacts, ProceedFlows
<1>4. TraceOK(prog', trace') /\ Len(trace) <= Len(trace')
  BY <1>1, TypeFacts, SilentKeeps
<1> QED
  BY <1>1, <1>3, <1>4, TypeFacts, KeptBy

LEMMA DoSwitchKeeps ==
  ASSUME InterpTypeOK, NEW n \in Stmts(prog), NEW o \in Values({0}), DoSwitch(n, o)
  PROVE  Kept
<1>1. /\ prog.kind[n] = "switch" /\ Record(<<n, "subject", 0>>, o)
      /\ Fails(n, o) \/ (o.error = NoError /\ Proceed(At("test", n, 1), Heard(o)))
      /\ UNCHANGED <<prog, lhs, iter, outcome>>
  BY DEF DoSwitch, Starts
<1>2. o \in Answers
  BY ValuesAreOutcomes
<1>3. TraceOK(prog', trace') /\ Len(trace) <= Len(trace')
  BY <1>1, <1>2, TypeFacts, OutcomeRecorded DEF EventNames
<1>4. Heard(o) \in HostErrors \cup {NoError}
  BY <1>2, TypeFacts, HeardIsQueued
<1>5. At("test", n, 1) \in Places(prog)
  BY <1>1, ArmsAssumption, TestIsPlace
<1>6. CASE Fails(n, o)
  <2>1. FlowOK'
    BY <1>1, <1>2, <1>6, TypeFacts, FailsFlows
  <2> QED
    BY <1>1, <1>3, <2>1, TypeFacts, KeptBy
<1>7. CASE Proceed(At("test", n, 1), Heard(o))
  <2>1. FlowOK'
    BY <1>1, <1>4, <1>5, <1>7, TypeFacts, ProceedFlows
  <2> QED
    BY <1>1, <1>3, <2>1, TypeFacts, KeptBy
<1> QED
  BY <1>1, <1>6, <1>7

LEMMA DoTryKeeps ==
  ASSUME InterpTypeOK, NEW n \in Stmts(prog), DoTry(n)
  PROVE  Kept
<1>1. /\ prog.kind[n] = "try" /\ Silent
      /\ Proceed(Enter(n, 1), queue)
      /\ UNCHANGED <<prog, lhs, iter, outcome>>
  BY DEF DoTry, Starts
<1>2. 1 \in Slots(prog.kind[n])
  BY <1>1 DEF Slots, Branchings, Loops
<1>3. Enter(n, 1) \in Places(prog)
  BY <1>2, TypeFacts, EndIsPlace, EnterIsPlace
<1>4. FlowOK'
  BY <1>1, <1>3, TypeFacts, ProceedFlows
<1>5. TraceOK(prog', trace') /\ Len(trace) <= Len(trace')
  BY <1>1, TypeFacts, SilentKeeps
<1> QED
  BY <1>1, <1>4, <1>5, TypeFacts, KeptBy

LEMMA DoForKeeps ==
  ASSUME InterpTypeOK, NEW n \in Stmts(prog), NEW o \in Values(0..MaxLen), DoFor(n, o)
  PROVE  Kept
<1>1. /\ prog.kind[n] = "for" /\ Record(<<n, "for", 0>>, o)
      /\ \/ Fails(n, o) /\ UNCHANGED iter
         \/ /\ o.error = NoError
            /\ iter' = [iter EXCEPT ![n] = [len |-> o.value, cursor |-> 0]]
            /\ Proceed(At("bind", n, 0), Heard(o))
      /\ UNCHANGED <<prog, lhs, outcome>>
  BY DEF DoFor, Starts
<1>2. o \in Answers /\ (o.error = NoError => o.value \in 0..MaxLen)
  BY InterpreterAssumption, ValuesAreOutcomes
<1>3. TraceOK(prog', trace') /\ Len(trace) <= Len(trace')
  BY <1>1, <1>2, TypeFacts, OutcomeRecorded DEF EventNames
<1>4. Heard(o) \in HostErrors \cup {NoError}
  BY <1>2, TypeFacts, HeardIsQueued
<1>5. CASE Fails(n, o) /\ UNCHANGED iter
  <2>1. FlowOK'
    BY <1>1, <1>2, <1>5, TypeFacts, FailsFlows
  <2> QED
    BY <1>1, <1>3, <1>5, <2>1, TypeFacts, KeptBy
<1>6. CASE /\ o.error = NoError
           /\ iter' = [iter EXCEPT ![n] = [len |-> o.value, cursor |-> 0]]
           /\ Proceed(At("bind", n, 0), Heard(o))
  <2>1. At("bind", n, 0) \in Places(prog)
    BY <1>1, BindIsPlace
  <2>2. FlowOK'
    BY <1>1, <1>4, <1>6, <2>1, TypeFacts, ProceedFlows
  <2>3. [len |-> o.value, cursor |-> 0] \in Cursors
    BY <1>2, <1>6, InterpreterAssumption DEF Cursors
  <2>4. iter' \in [Stmts(prog) -> Cursors]
    BY <1>6, <2>3, TypeFacts
  <2> QED
    BY <1>1, <1>3, <2>2, <2>4, TypeFacts, KeptBy
<1> QED
  BY <1>1, <1>5, <1>6

LEMMA DoControlKeeps ==
  ASSUME InterpTypeOK, NEW n \in Stmts(prog), DoControl(n)
  PROVE  Kept
<1>1. /\ prog.kind[n] \in Controls /\ Silent
      /\ Complete(n, prog.kind[n], queue)
      /\ UNCHANGED <<prog, lhs, iter, outcome>>
  BY DEF DoControl, Starts
<1>2. prog.kind[n] \in Flows /\ prog.kind[n] # "error"
  BY <1>1 DEF Flows, Controls
<1>3. FlowOK'
  BY <1>1, <1>2, TypeFacts, CompleteFlows
<1>4. TraceOK(prog', trace') /\ Len(trace) <= Len(trace')
  BY <1>1, TypeFacts, SilentKeeps
<1> QED
  BY <1>1, <1>3, <1>4, TypeFacts, KeptBy

\* Control is at a condition of n only when n has conditions.
LEMMA AtTest ==
  ASSUME InterpTypeOK, NEW n \in Stmts(prog), NEW i \in 1..Arms,
         ctl = At("test", n, i) \/ ctl = At("rhs", n, i)
  PROVE  prog.kind[n] \in {"if", "switch", "while"}
  BY TypeFacts DEF Places, At

LEMMA TestSiteIs ==
  ASSUME NEW n, NEW i
  PROVE  \E name \in EventNames : TestSite(n, i) = <<n, name, i>>
  BY DEF TestSite, EventNames

LEMMA EvaluateTestKeeps ==
  ASSUME InterpTypeOK, NEW n \in Stmts(prog), NEW i \in 1..Arms,
         NEW o \in Values({0, 1}), EvaluateTest(n, i, o)
  PROVE  Kept
<1>1. /\ ctl = At("test", n, i) /\ Record(TestSite(n, i), o)
      /\ \/ Fails(n, o) /\ UNCHANGED lhs
         \/ /\ o.error = NoError
            /\ Decide(n, i, o.value # 0, Heard(o)) /\ UNCHANGED lhs
         \/ /\ o.error = NoError
            /\ lhs' = o.value
            /\ Proceed(At("rhs", n, i), Heard(o))
      /\ UNCHANGED <<prog, iter, outcome>>
  BY DEF EvaluateTest
<1>2. o \in Answers /\ (o.error = NoError => o.value \in {0, 1})
  BY ValuesAreOutcomes
<1>3. prog.kind[n] \in {"if", "switch", "while"}
  BY <1>1, AtTest
<1>4. TraceOK(prog', trace') /\ Len(trace) <= Len(trace')
  <2>1. PICK name \in EventNames : TestSite(n, i) = <<n, name, i>>
    BY TestSiteIs
  <2>2. i \in 0..Arms
    BY ArmsAssumption
  <2> QED
    BY <1>1, <1>2, <2>1, <2>2, TypeFacts, OutcomeRecorded
<1>5. Heard(o) \in HostErrors \cup {NoError}
  BY <1>2, TypeFacts, HeardIsQueued
<1>6. CASE Fails(n, o) /\ UNCHANGED lhs
  <2>1. FlowOK'
    BY <1>1, <1>2, <1>6, TypeFacts, FailsFlows
  <2> QED
    BY <1>1, <1>4, <1>6, <2>1, TypeFacts, KeptBy
<1>7. CASE Decide(n, i, o.value # 0, Heard(o)) /\ UNCHANGED lhs
  <2>1. FlowOK'
    BY <1>1, <1>3, <1>5, <1>7, TypeFacts, DecideFlows
  <2> QED
    BY <1>1, <1>4, <1>7, <2>1, TypeFacts, KeptBy
<1>8. CASE o.error = NoError /\ lhs' = o.value /\ Proceed(At("rhs", n, i), Heard(o))
  <2>1. At("rhs", n, i) \in Places(prog)
    BY <1>3, TestIsPlace
  <2>2. FlowOK'
    BY <1>1, <1>5, <1>8, <2>1, TypeFacts, ProceedFlows
  <2>3. lhs' \in 0..1
    BY <1>2, <1>8
  <2> QED
    BY <1>1, <1>4, <2>2, <2>3, TypeFacts, KeptBy
<1> QED
  BY <1>1, <1>6, <1>7, <1>8

LEMMA EvaluateRhsKeeps ==
  ASSUME InterpTypeOK, NEW n \in Stmts(prog), NEW i \in 1..Arms,
         NEW o \in Values({0, 1}), EvaluateRhs(n, i, o)
  PROVE  Kept
<1> DEFINE holds == IF prog.test[n] = "and" THEN lhs # 0 /\ o.value # 0
                    ELSE lhs # 0 \/ o.value # 0
<1>1. /\ ctl = At("rhs", n, i) /\ Record(<<n, "rhs", i>>, o)
      /\ Fails(n, o) \/ (o.error = NoError /\ Decide(n, i, holds, Heard(o)))
      /\ UNCHANGED <<prog, lhs, iter, outcome>>
  BY DEF EvaluateRhs
<1>2. o \in Answers
  BY ValuesAreOutcomes
<1>3. prog.kind[n] \in {"if", "switch", "while"}
  BY <1>1, AtTest
<1>4. TraceOK(prog', trace') /\ Len(trace) <= Len(trace')
  <2>1. i \in 0..Arms
    BY ArmsAssumption
  <2> QED
    BY <1>1, <1>2, <2>1, TypeFacts, OutcomeRecorded DEF EventNames
<1>5. Heard(o) \in HostErrors \cup {NoError}
  BY <1>2, TypeFacts, HeardIsQueued
<1>6. holds \in BOOLEAN
  OBVIOUS
<1> HIDE DEF holds
<1>7. CASE Fails(n, o)
  <2>1. FlowOK'
    BY <1>1, <1>2, <1>7, TypeFacts, FailsFlows
  <2> QED
    BY <1>1, <1>4, <2>1, TypeFacts, KeptBy
<1>8. CASE Decide(n, i, holds, Heard(o))
  <2>1. FlowOK'
    BY <1>1, <1>3, <1>5, <1>6, <1>8, TypeFacts, DecideFlows
  <2> QED
    BY <1>1, <1>4, <2>1, TypeFacts, KeptBy
<1> QED
  BY <1>1, <1>7, <1>8


LEMMA PlaceIs ==
  ASSUME NEW p, NEW c \in Places(p)
  PROVE  \/ \E n \in Stmts(p) : c = At("start", n, 0)
         \/ \E a \in {"test", "rhs"}, i \in 1..Arms, n \in Stmts(p) : c = At(a, n, i)
         \/ \E n \in Stmts(p) : p.kind[n] = "for" /\ c = At("bind", n, 0)
         \/ c = At("end", 0, 1)
         \/ \E n \in Stmts(p) : \E s \in Slots(p.kind[n]) : c = At("end", n, s)
  BY DEF Places

LEMMA AtBind ==
  ASSUME InterpTypeOK, NEW n \in Stmts(prog), ctl = At("bind", n, 0)
  PROVE  prog.kind[n] = "for"
<1>1. ctl \in Places(prog) /\ ctl.at = "bind" /\ ctl.node = n
  BY TypeFacts DEF At
<1>2. \E m \in Stmts(prog) : prog.kind[m] = "for" /\ ctl = At("bind", m, 0)
  BY <1>1, PlaceIs DEF At
<1> QED
  BY <1>1, <1>2 DEF At

LEMMA BindNextKeeps ==
  ASSUME InterpTypeOK, NEW n \in Stmts(prog), BindNext(n)
  PROVE  Kept
<1> DEFINE o == Succeeded(iter[n].cursor + 1)
<1>1. /\ ctl = At("bind", n, 0) /\ iter[n].cursor < iter[n].len
      /\ Record(<<n, "bind", 0>>, o)
      /\ iter' = [iter EXCEPT ![n].cursor = @ + 1]
      /\ Proceed(Enter(n, 1), queue)
      /\ UNCHANGED <<prog, lhs, outcome>>
  BY Zenon DEF BindNext
<1>2. prog.kind[n] = "for"
  BY <1>1, AtBind
<1>3. iter[n] \in Cursors
  BY TypeFacts
<1>4. o \in Answers
  BY <1>3 DEF Cursors, Answers, Succeeded
<1>5. TraceOK(prog', trace') /\ Len(trace) <= Len(trace')
  <2> HIDE DEF o
  <2> QED
    BY <1>1, <1>4, TypeFacts, OutcomeRecorded DEF EventNames
<1>6. [iter[n] EXCEPT !.cursor = iter[n].cursor + 1] \in Cursors
  <2>1. /\ iter[n] \in [len : 0..MaxLen, cursor : 0..MaxLen]
        /\ iter[n].cursor < iter[n].len
    BY <1>1, <1>3 DEF Cursors
  <2>2. iter[n].len \in 0..MaxLen /\ iter[n].cursor \in 0..MaxLen
    BY <2>1
  <2>3. iter[n].cursor + 1 \in 0..MaxLen /\ iter[n].cursor + 1 <= iter[n].len
    BY <2>1, <2>2, InterpreterAssumption
  <2> QED
    BY <2>1, <2>3 DEF Cursors
<1>7. iter' \in [Stmts(prog) -> Cursors]
  <2>1. iter' = [iter EXCEPT ![n] = [iter[n] EXCEPT !.cursor = iter[n].cursor + 1]]
    BY <1>1
  <2> QED
    BY <1>6, <2>1, TypeFacts
<1>8. 1 \in Slots(prog.kind[n])
  BY <1>2 DEF Slots, Branchings, Loops
<1>9. Enter(n, 1) \in Places(prog)
  BY <1>8, TypeFacts, EndIsPlace, EnterIsPlace
<1>10. FlowOK'
  BY <1>1, <1>9, TypeFacts, ProceedFlows
<1> QED
  BY <1>1, <1>5, <1>7, <1>10, TypeFacts, KeptBy

LEMMA ForEndsKeeps ==
  ASSUME InterpTypeOK, NEW n \in Stmts(prog), ForEnds(n)
  PROVE  Kept
<1>1. Silent /\ Complete(n, "none", queue) /\ UNCHANGED <<prog, lhs, iter, outcome>>
  BY DEF ForEnds
<1>2. FlowOK'
  BY <1>1, TypeFacts, CompleteFlows DEF Flows
<1>3. TraceOK(prog', trace') /\ Len(trace) <= Len(trace')
  BY <1>1, TypeFacts, SilentKeeps
<1> QED
  BY <1>1, <1>2, <1>3, TypeFacts, KeptBy

LEMMA CatchErrorKeeps ==
  ASSUME InterpTypeOK, NEW n \in Stmts(prog), CatchError(n)
  PROVE  Kept
<1> DEFINE o == [Succeeded(0) EXCEPT !.error = error]
<1>1. /\ prog.kind[n] = "try" /\ Record(<<n, "catch", 0>>, o)
      /\ Proceed(Enter(n, 2), queue)
      /\ UNCHANGED <<prog, lhs, iter, outcome>>
  BY DEF CatchError
<1>2. /\ o.error \in Errors \cup HostErrors \cup {NoError} /\ o.value \in Nat
      /\ o.host \in HostErrors \cup {NoError}
  BY TypeFacts DEF Succeeded, FlowOK
<1>3. n \in 0..Len(prog.kind)
  BY TypeFacts, TreeTypes DEF Stmts
<1>4. TraceOK(prog', trace') /\ Len(trace) <= Len(trace')
  <2> HIDE DEF o
  <2> QED
    BY <1>1, <1>2, <1>3, TypeFacts, RecordKeeps DEF EventNames
<1>5. 2 \in Slots(prog.kind[n])
  BY <1>1 DEF Slots, Branchings, Loops
<1>6. Enter(n, 2) \in Places(prog)
  BY <1>5, TypeFacts, EndIsPlace, EnterIsPlace
<1>7. FlowOK'
  BY <1>1, <1>6, TypeFacts, ProceedFlows
<1> QED
  BY <1>1, <1>4, <1>7, TypeFacts, KeptBy

LEMMA HandOnKeeps ==
  ASSUME InterpTypeOK, NEW n \in Stmts(prog), NEW s, HandOn(n, s)
  PROVE  Kept
<1>1. /\ Silent /\ UNCHANGED <<prog, lhs, iter, outcome>>
      /\ Complete(n, flow, queue) \/ Quit(n, flow, queue)
  BY DEF HandOn
<1>2. flow \in Flows /\ (flow = "error" => error # NoError)
  BY TypeFacts DEF FlowOK
<1>3. FlowOK'
  BY <1>1, <1>2, TypeFacts, CompleteFlows, QuitFlows
<1>4. TraceOK(prog', trace') /\ Len(trace) <= Len(trace')
  BY <1>1, TypeFacts, SilentKeeps
<1> QED
  BY <1>1, <1>3, <1>4, TypeFacts, KeptBy

LEMMA LoopTurnsKeeps ==
  ASSUME InterpTypeOK, NEW n \in Stmts(prog), LoopTurns(n)
  PROVE  Kept
<1> DEFINE c == IF prog.kind[n] = "for" THEN At("bind", n, 0) ELSE At("test", n, 1)
<1>1. /\ prog.kind[n] \in Loops /\ Silent /\ Proceed(c, queue)
      /\ UNCHANGED <<prog, lhs, iter, outcome>>
  BY DEF LoopTurns
<1>2. c \in Places(prog)
  BY <1>1, ArmsAssumption, BindIsPlace, TestIsPlace DEF Loops
<1> HIDE DEF c
<1>3. FlowOK'
  BY <1>1, <1>2, TypeFacts, ProceedFlows
<1>4. TraceOK(prog', trace') /\ Len(trace) <= Len(trace')
  BY <1>1, TypeFacts, SilentKeeps
<1> QED
  BY <1>1, <1>3, <1>4, TypeFacts, KeptBy

LEMMA LoopLeftKeeps ==
  ASSUME InterpTypeOK, NEW n \in Stmts(prog), LoopLeft(n)
  PROVE  Kept
<1> DEFINE f == IF flow = "break" THEN "none" ELSE flow
<1>1. /\ Silent /\ UNCHANGED <<prog, lhs, iter, outcome>>
      /\ Complete(n, f, queue) \/ Quit(n, f, queue)
  BY DEF LoopLeft
<1>2. f \in Flows /\ (f = "error" => error # NoError)
  BY TypeFacts DEF FlowOK, Flows
<1> HIDE DEF f
<1>3. FlowOK'
  BY <1>1, <1>2, TypeFacts, CompleteFlows, QuitFlows
<1>4. TraceOK(prog', trace') /\ Len(trace) <= Len(trace')
  BY <1>1, TypeFacts, SilentKeeps
<1> QED
  BY <1>1, <1>3, <1>4, TypeFacts, KeptBy

\* A run ends with a result.
Results == {"running", "returned", "cut", "unsupported"} \cup Errors \cup HostErrors

LEMMA EndKeeps ==
  ASSUME InterpTypeOK, UNCHANGED <<prog, ctl, flow, error, lhs, iter, queue>>,
         outcome' \in Results,
         TraceOK(prog', trace') /\ Len(trace) <= Len(trace')
  PROVE  Kept
  BY DEF InterpTypeOK, Kept, TraceOK, FlowOK, Results

LEMMA ScriptEndsKeeps ==
  ASSUME InterpTypeOK, ScriptEnds
  PROVE  Kept
<1>1. /\ Silent /\ UNCHANGED <<prog, ctl, flow, error, lhs, iter, queue>>
      /\ outcome' = CASE flow = "none"  -> "returned"
                      [] flow = "error" -> error
                      [] OTHER          -> "unsupported"
  BY DEF ScriptEnds
<1>2. outcome' \in Results
  <2>1. CASE flow = "none"
    BY <1>1, <2>1 DEF Results
  <2>2. CASE flow = "error"
    BY <1>1, <2>2, TypeFacts DEF FlowOK, Results
  <2>3. CASE flow # "none" /\ flow # "error"
    BY <1>1, <2>3 DEF Results
  <2> QED
    BY <2>1, <2>2, <2>3
<1>3. TraceOK(prog', trace') /\ Len(trace) <= Len(trace')
  BY <1>1, TypeFacts, SilentKeeps
<1> QED
  BY <1>1, <1>2, <1>3, EndKeeps

LEMMA FunctionFailsKeeps ==
  ASSUME InterpTypeOK, FunctionFails
  PROVE  Kept
<1>1. /\ flow = "error" /\ Silent /\ outcome' = error
      /\ UNCHANGED <<prog, ctl, flow, error, lhs, iter, queue>>
  BY DEF FunctionFails
<1>2. outcome' \in Results
  BY <1>1, TypeFacts DEF FlowOK, Results
<1>3. TraceOK(prog', trace') /\ Len(trace) <= Len(trace')
  BY <1>1, TypeFacts, SilentKeeps
<1> QED
  BY <1>1, <1>2, <1>3, EndKeeps

LEMMA ReadOutputsKeeps ==
  ASSUME InterpTypeOK, NEW e \in Errors \cup {NoError},
         ReadOutputs([Succeeded(0) EXCEPT !.error = e])
  PROVE  Kept
<1> DEFINE o == [Succeeded(0) EXCEPT !.error = e]
<1>1. o \in Answers /\ o.error = e
  BY DEF Succeeded, Answers
<1> HIDE DEF o
<1>2. /\ Record(<<0, "outputs", 0>>, o)
      /\ outcome' = IF o.error = NoError THEN "returned" ELSE o.error
      /\ UNCHANGED <<prog, ctl, flow, error, lhs, iter, queue>>
  BY DEF ReadOutputs, o
<1>3. outcome' \in Results
  BY <1>1, <1>2 DEF Results
<1>4. 0 \in 0..Len(prog.kind)
  BY TypeFacts, TreeTypes
<1>5. /\ o.error \in Errors \cup HostErrors \cup {NoError} /\ o.value \in Nat
      /\ o.host \in HostErrors \cup {NoError}
  BY <1>1 DEF Answers
<1>6. TraceOK(prog', trace') /\ Len(trace) <= Len(trace')
  BY <1>2, <1>4, <1>5, TypeFacts, RecordKeeps DEF EventNames
<1> QED
  BY <1>2, <1>3, <1>6, EndKeeps

LEMMA CutKeeps ==
  ASSUME InterpTypeOK, Cut
  PROVE  Kept
<1>1. /\ outcome' = "cut"
      /\ UNCHANGED <<prog, ctl, flow, error, lhs, iter, queue, trace>>
  BY DEF Cut
<1>2. outcome' \in Results
  BY <1>1 DEF Results
<1>3. Len(trace) \in Nat
  BY TypeFacts DEF TraceOK
<1>4. TraceOK(prog', trace') /\ Len(trace) <= Len(trace')
  BY <1>1, <1>3, TypeFacts
<1> QED
  BY <1>1, <1>2, <1>4, EndKeeps

LEMMA InterpNextKeeps ==
  ASSUME InterpTypeOK, InterpNext
  PROVE  Kept
<1>1. ASSUME NEW n \in Stmts(prog), NEW o \in Values({0}), DoAct(n, o) \/ DoSwitch(n, o)
      PROVE  Kept
  BY <1>1, DoActKeeps, DoSwitchKeeps
<1>2. ASSUME NEW n \in Stmts(prog), NEW o \in Values(0..MaxLen), DoFor(n, o)
      PROVE  Kept
  BY <1>2, DoForKeeps
<1>3. ASSUME NEW n \in Stmts(prog), NEW o \in Values({0, 1}), NEW i \in 1..Arms,
             EvaluateTest(n, i, o) \/ EvaluateRhs(n, i, o)
      PROVE  Kept
  BY <1>3, EvaluateTestKeeps, EvaluateRhsKeeps
<1>4. ASSUME NEW n \in Stmts(prog), DoCondition(n) \/ DoTry(n) \/ DoControl(n)
      PROVE  Kept
  BY <1>4, DoConditionKeeps, DoTryKeeps, DoControlKeeps
<1>5. ASSUME NEW n \in Stmts(prog), BindNext(n) \/ ForEnds(n) \/ CatchError(n)
      PROVE  Kept
  BY <1>5, BindNextKeeps, ForEndsKeeps, CatchErrorKeeps
<1>6. ASSUME NEW n \in Stmts(prog), NEW s \in Slots(prog.kind[n]), HandOn(n, s)
      PROVE  Kept
  BY <1>6, HandOnKeeps
<1>7. ASSUME NEW n \in Stmts(prog), LoopTurns(n) \/ LoopLeft(n)
      PROVE  Kept
  BY <1>7, LoopTurnsKeeps, LoopLeftKeeps
<1>8. ASSUME ScriptEnds \/ FunctionFails \/ Cut
      PROVE  Kept
  BY <1>8, ScriptEndsKeeps, FunctionFailsKeeps, CutKeeps
<1>9. ASSUME NEW e \in Errors \cup {NoError},
             ReadOutputs([Succeeded(0) EXCEPT !.error = e])
      PROVE  Kept
  BY <1>9, ReadOutputsKeeps
<1> QED
  BY <1>1, <1>2, <1>3, <1>4, <1>5, <1>6, <1>7, <1>8, <1>9, Zenon DEF InterpNext

LEMMA InterpInitTypeOK ==
  ASSUME InterpInit
  PROVE  InterpTypeOK
<1>1. /\ prog \in Programs /\ ctl = Enter(0, 1) /\ flow = "none" /\ error = NoError
      /\ lhs = 0 /\ iter = [n \in Stmts(prog) |-> [len |-> 0, cursor |-> 0]]
      /\ queue = NoError /\ outcome = "running" /\ trace = << >>
  BY DEF InterpInit
<1>2. IsTree(prog)
  BY <1>1, ProgramsAssumption
<1>3. At("end", 0, 1) \in Places(prog)
  BY DEF Places
<1>4. ctl \in Places(prog)
  BY <1>1, <1>2, <1>3, EnterIsPlace
<1>5. FlowOK
  BY <1>1, <1>4 DEF FlowOK, Flows
<1>6. [len |-> 0, cursor |-> 0] \in Cursors
  BY InterpreterAssumption DEF Cursors
<1>7. iter \in [Stmts(prog) -> Cursors]
  BY <1>1, <1>6
<1>8. trace \in Seq(Events(prog)) /\ Len(trace) <= MaxEvents
  BY <1>1, InterpreterAssumption
<1> QED
  BY <1>1, <1>2, <1>5, <1>7, <1>8 DEF InterpTypeOK

-----------------------------------------------------------------------------
(***************************************************************************)
(* The two engines together.                                               *)
(***************************************************************************)
LEMMA PosIsOK ==
  ASSUME TypeOK, Kept, pos' = pos
  PROVE  TypeOK'
<1>1. Len(trace) \in Nat /\ Len(trace') \in Nat /\ Len(trace) <= Len(trace')
  BY DEF Kept, TypeOK, InterpTypeOK
<1> QED
  BY <1>1 DEF TypeOK, Kept

LEMMA StillTypeOK ==
  ASSUME TypeOK, UNCHANGED interpVars, pos' \in 0..Len(trace)
  PROVE  TypeOK'
  BY DEF TypeOK, InterpTypeOK, FlowOK, interpVars

LEMMA ReplayAdvances ==
  ASSUME TypeOK, NEW o, Replay(o)
  PROVE  pos' \in 0..Len(trace)
<1>1. Len(trace) \in Nat
  BY DEF TypeOK, InterpTypeOK
<1> QED
  BY <1>1 DEF TypeOK, Replay

\* Whatever the program and whatever its evaluations answer, the interpreter's
\* control is at a place that the program has, a block that fails carries the
\* error it failed with, a loop takes no element past the last, and the machine
\* asks for no event past the end of the trace.
THEOREM ParityTypeOK == Spec => []TypeOK
<1>1. Init => TypeOK
  BY InterpInitTypeOK DEF Init, TypeOK, InterpTypeOK
<1>2. TypeOK /\ [Next]_vars => TypeOK'
  <2> SUFFICES ASSUME TypeOK, [Next]_vars PROVE TypeOK'
    OBVIOUS
  <2>1. ASSUME Interpret PROVE TypeOK'
    <3>1. Kept
      BY <2>1, InterpNextKeeps DEF Interpret, TypeOK
    <3> QED
      BY <2>1, <3>1, PosIsOK DEF Interpret, machineVars
  <2>2. ASSUME ReplayEvaluation, UNCHANGED interpVars PROVE TypeOK'
    <3>1. PICK o : Replay(o)
      BY <2>2, Zenon DEF ReplayEvaluation
    <3> QED
      BY <2>2, <3>1, ReplayAdvances, StillTypeOK
  <2>3. ASSUME ReplayBinding, UNCHANGED interpVars PROVE TypeOK'
    <3>1. PICK o : Replay(o)
      BY <2>3, Zenon DEF ReplayBinding
    <3> QED
      BY <2>3, <3>1, ReplayAdvances, StillTypeOK
  <2>4. ASSUME UNCHANGED pos, UNCHANGED interpVars PROVE TypeOK'
    BY <2>4, StillTypeOK DEF TypeOK
  <2>5. ReplaySilent => UNCHANGED pos
    BY DEF ReplaySilent
  <2>6. UNCHANGED vars => UNCHANGED pos /\ UNCHANGED interpVars
    BY DEF vars, machineVars
  <2> QED
    BY <2>1, <2>2, <2>3, <2>4, <2>5, <2>6, Zenon DEF Next, Finished
<1> QED
  BY <1>1, <1>2, PTL DEF Spec

-----------------------------------------------------------------------------
(***************************************************************************)
(* Where the code of a tree lies.                                          *)
(***************************************************************************)

\* The instructions d are those of c from position b.
Holds(c, b, d) ==
  /\ b \in Nat \ {0}
  /\ \A i \in DOMAIN d : b + i - 1 \in DOMAIN c /\ c[b + i - 1] = d[i]

\* Code holds its first half, and its second behind it.
LEMMA HoldsJoin ==
  ASSUME NEW c, NEW b, NEW d \in Seq(Instrs), NEW e \in Seq(Instrs), Holds(c, b, d \o e)
  PROVE  /\ Holds(c, b, d) /\ Holds(c, b + Len(d), e)
         /\ Len(d \o e) = Len(d) + Len(e)
<1>1. /\ Len(d) \in Nat /\ Len(e) \in Nat /\ DOMAIN d = 1 .. Len(d) /\ DOMAIN e = 1 .. Len(e)
      /\ Len(d \o e) = Len(d) + Len(e)
      /\ DOMAIN (d \o e) = 1 .. Len(d) + Len(e)
      /\ \A i \in 1 .. Len(d) : (d \o e)[i] = d[i]
      /\ \A i \in 1 .. Len(e) : (d \o e)[Len(d) + i] = e[i]
  BY ConcatIs
<1> DEFINE de == d \o e
           m == Len(d)
           k == Len(e)
<1> HIDE DEF de, m, k
<1>2. /\ m \in Nat /\ k \in Nat /\ DOMAIN de = 1 .. m + k /\ DOMAIN d = 1 .. m /\ DOMAIN e = 1 .. k
      /\ \A i \in 1 .. m : de[i] = d[i]
      /\ \A i \in 1 .. k : de[m + i] = e[i]
  BY <1>1 DEF de, m, k
<1>3. b \in Nat \ {0} /\ \A i \in 1 .. m + k : b + i - 1 \in DOMAIN c /\ c[b + i - 1] = de[i]
  BY <1>2 DEF Holds, de
<1>4. Holds(c, b, d)
  <2>1. \A i \in 1 .. m : i \in 1 .. m + k
    BY <1>2
  <2> QED BY <1>2, <1>3, <2>1 DEF Holds
<1>5. Holds(c, b + m, e)
  <2>1. \A i \in 1 .. k : m + i \in 1 .. m + k /\ b + (m + i) - 1 = b + m + i - 1
    BY <1>2, <1>3
  <2>2. b + m \in Nat \ {0}
    BY <1>2, <1>3
  <2> QED BY <1>2, <1>3, <2>1, <2>2 DEF Holds
<1> QED BY <1>1, <1>4, <1>5 DEF m

\* Numbers that never fall from one to the next never fall.
LEMMA RowRises ==
  ASSUME NEW n \in Nat, NEW at \in [0 .. n -> Nat], \A i \in 1 .. n : at[i - 1] <= at[i],
         NEW i \in 0 .. n, NEW j \in i .. n
  PROVE  at[i] <= at[j]
<1> DEFINE Bad == {k \in Nat : k \in i .. n /\ ~ (at[i] <= at[k])}
<1>1. Bad = {}
  <2> SUFFICES ASSUME Bad # {} PROVE FALSE
    OBVIOUS
  <2>1. PICK k \in Bad : \A h \in Bad : k <= h
    <3>1. Bad \in SUBSET Nat
      OBVIOUS
    <3> HIDE DEF Bad
    <3> QED BY <3>1, LeastElement
  <2>2. k \in i .. n /\ ~ (at[i] <= at[k])
    BY <2>1
  <2>3. k # i
    BY <2>2
  <2>4. k - 1 \in i .. n /\ k - 1 \in Nat /\ k \in 1 .. n /\ ~ (k <= k - 1)
    BY <2>2, <2>3
  <2>5. at[i] <= at[k - 1]
    BY <2>1, <2>4
  <2>6. at[k - 1] <= at[k] /\ at[k - 1] \in Nat /\ at[k] \in Nat /\ at[i] \in Nat
    BY <2>4
  <2> QED BY <2>2, <2>5, <2>6
<1>2. j \in Nat
  OBVIOUS
<1> QED BY <1>1, <1>2

\* Numbers that stay as they are from one to the next stay as they are.
LEMMA RowRests ==
  ASSUME NEW n \in Nat, NEW at, NEW i \in 0 .. n, NEW j \in i .. n,
         \A k \in i + 1 .. j : at[k] = at[k - 1]
  PROVE  at[i] = at[j]
<1> DEFINE Bad == {k \in Nat : k \in i .. j /\ at[i] # at[k]}
<1>1. Bad = {}
  <2> SUFFICES ASSUME Bad # {} PROVE FALSE
    OBVIOUS
  <2>1. PICK k \in Bad : \A h \in Bad : k <= h
    <3>1. Bad \in SUBSET Nat
      OBVIOUS
    <3> HIDE DEF Bad
    <3> QED BY <3>1, LeastElement
  <2>2. k \in i .. j /\ at[i] # at[k]
    BY <2>1
  <2>4. k - 1 \in i .. j /\ k - 1 \in Nat /\ k \in i + 1 .. j /\ ~ (k <= k - 1)
    BY <2>2
  <2>5. at[i] = at[k - 1]
    BY <2>1, <2>4
  <2> QED BY <2>2, <2>4, <2>5
<1> QED BY <1>1

\* at tells where the parts of a row begin and end.
Strung(c, seqs, n, b, at) ==
  /\ at \in [0 .. n -> Nat \ {0}]
  /\ at[0] = b
  /\ at[n] = b + Len(FlattenSeq(seqs))
  /\ \A i \in 1 .. n : at[i] = at[i - 1] + Len(seqs[i]) /\ Holds(c, at[i - 1], seqs[i])

\* A row of pieces of code lies piece behind piece.
LEMMA RowHolds ==
  ASSUME NEW c, NEW n \in Nat, NEW seqs \in Seq(Seq(Instrs)), Len(seqs) = n,
         NEW b, Holds(c, b, FlattenSeq(seqs))
  PROVE  \E at : Strung(c, seqs, n, b, at)
<1>0. b \in Nat \ {0}
  BY DEF Holds
<1>1. CASE n = 0
  <2>1. FlattenSeq(seqs) = seqs
    BY <1>1 DEF FlattenSeq
  <2> DEFINE at == [i \in 0 .. n |-> b]
  <2>2. at \in [0 .. n -> Nat \ {0}] /\ at[0] = b /\ at[n] = b
    BY <1>0, <1>1
  <2>3. b = b + Len(FlattenSeq(seqs)) /\ 1 .. n = {}
    BY <1>0, <1>1, <2>1
  <2> HIDE DEF at
  <2>4. Strung(c, seqs, n, b, at)
    BY <2>2, <2>3 DEF Strung
  <2> QED BY <2>4
<1>2. CASE n # 0
  <2>1. PICK f : /\ FlattenSeq(seqs) = f[n] /\ f[1] = seqs[1]
                 /\ \A i \in 1 .. n : i # 1 => f[i] = f[i - 1] \o seqs[i]
    BY <1>2, FlattenFollows
  <2>2. \A i \in 1 .. n : seqs[i] \in Seq(Instrs)
    OBVIOUS
  <2>3. \A i \in 1 .. n : f[i] \in Seq(Instrs)
    <3> DEFINE Bad == {k \in Nat : k \in 1 .. n /\ f[k] \notin Seq(Instrs)}
    <3>0. ASSUME NEW i \in 1 .. n, Bad = {}
          PROVE  f[i] \in Seq(Instrs)
      <4>1. i \in Nat
        OBVIOUS
      <4>2. i \notin Bad
        BY <3>0
      <4> HIDE <3>0
      <4> QED BY <4>1, <4>2
    <3> SUFFICES ASSUME Bad # {} PROVE FALSE
      BY <3>0
    <3>1. PICK k \in Bad : \A h \in Bad : k <= h
      <4>1. Bad \in SUBSET Nat
        OBVIOUS
      <4> HIDE DEF Bad
      <4> QED BY <4>1, LeastElement
    <3>2. k \in 1 .. n /\ f[k] \notin Seq(Instrs)
      BY <3>1
    <3>3. k # 1
      BY <2>1, <2>2, <3>2
    <3>4. k - 1 \in 1 .. n /\ k - 1 \in Nat /\ ~ (k <= k - 1)
      BY <3>2, <3>3
    <3>5. f[k - 1] \in Seq(Instrs)
      BY <3>1, <3>4
    <3>6. f[k] = f[k - 1] \o seqs[k]
      BY <2>1, <3>2, <3>3
    <3> HIDE DEF Bad
    <3> QED BY <2>2, <3>2, <3>5, <3>6, ConcatIs
  <2>4. \A i \in 1 .. n : i # 1 /\ Holds(c, b, f[i]) =>
            /\ Holds(c, b, f[i - 1]) /\ Holds(c, b + Len(f[i - 1]), seqs[i])
            /\ Len(f[i]) = Len(f[i - 1]) + Len(seqs[i])
    <3> SUFFICES ASSUME NEW i \in 1 .. n, i # 1, Holds(c, b, f[i])
                 PROVE  /\ Holds(c, b, f[i - 1]) /\ Holds(c, b + Len(f[i - 1]), seqs[i])
                        /\ Len(f[i]) = Len(f[i - 1]) + Len(seqs[i])
      OBVIOUS
    <3>1. i - 1 \in 1 .. n
      OBVIOUS
    <3>2. f[i - 1] \in Seq(Instrs) /\ seqs[i] \in Seq(Instrs) /\ f[i] = f[i - 1] \o seqs[i]
      BY <2>1, <2>2, <2>3, <3>1
    <3> DEFINE d == f[i - 1]
               e == seqs[i]
    <3>3. d \in Seq(Instrs) /\ e \in Seq(Instrs) /\ f[i] = d \o e /\ Holds(c, b, d \o e)
      BY <3>2
    <3> HIDE DEF d, e
    <3>4. /\ Holds(c, b, d) /\ Holds(c, b + Len(d), e)
          /\ Len(d \o e) = Len(d) + Len(e)
      BY <3>3, HoldsJoin
    <3> QED BY <3>3, <3>4 DEF d, e
  <2>5. \A i \in 1 .. n : Holds(c, b, f[i])
    <3> DEFINE Bad == {k \in 1 .. n : ~ Holds(c, b, f[k])}
    <3> SUFFICES ASSUME Bad # {} PROVE FALSE
      OBVIOUS
    <3>1. PICK k \in Bad : \A h \in Bad : h <= k
      <4>1. Bad \subseteq 1 .. n
        OBVIOUS
      <4> HIDE DEF Bad
      <4> QED BY <4>1, GreatestElement
    <3>2. k \in 1 .. n /\ ~ Holds(c, b, f[k])
      BY <3>1
    <3>3. k # n
      BY <2>1, <3>2
    <3>4. k + 1 \in 1 .. n /\ k + 1 # 1 /\ ~ (k + 1 <= k) /\ (k + 1) - 1 = k
      BY <3>2, <3>3
    <3>5. Holds(c, b, f[k + 1])
      BY <3>1, <3>4
    <3> QED BY <2>4, <3>2, <3>4, <3>5
  <2> DEFINE at == [i \in 0 .. n |-> IF i = 0 THEN b ELSE b + Len(f[i])]
  <2>6. \A i \in 1 .. n : Len(f[i]) \in Nat
    BY <2>3
  <2>7. at \in [0 .. n -> Nat \ {0}]
    BY <1>0, <2>6
  <2>8. \A i \in 1 .. n : at[i] = at[i - 1] + Len(seqs[i]) /\ Holds(c, at[i - 1], seqs[i])
    <3> SUFFICES ASSUME NEW i \in 1 .. n
                 PROVE  at[i] = at[i - 1] + Len(seqs[i]) /\ Holds(c, at[i - 1], seqs[i])
      OBVIOUS
    <3>0. at[i] = b + Len(f[i])
      OBVIOUS
    <3>1. CASE i = 1
      <4>1. at[i - 1] = b
        BY <3>1
      <4> QED BY <2>1, <2>5, <3>0, <3>1, <4>1
    <3>2. CASE i # 1
      <4>0. i - 1 \in 1 .. n
        BY <3>2
      <4>1. at[i - 1] = b + Len(f[i - 1])
        BY <4>0
      <4>2. Len(f[i - 1]) \in Nat /\ Len(seqs[i]) \in Nat
        BY <2>2, <2>6, <4>0
      <4>3. Holds(c, b, f[i])
        BY <2>5
      <4>4. Holds(c, b + Len(f[i - 1]), seqs[i]) /\ Len(f[i]) = Len(f[i - 1]) + Len(seqs[i])
        BY <2>4, <3>2, <4>3
      <4> HIDE DEF at
      <4>5. b \in Nat /\ at[i] = at[i - 1] + Len(seqs[i])
        BY <1>0, <3>0, <4>1, <4>2, <4>4
      <4> QED BY <4>1, <4>4, <4>5
    <3> QED BY <3>1, <3>2
  <2>9. at[0] = b /\ at[n] = b + Len(FlattenSeq(seqs))
    BY <1>2, <2>1
  <2> HIDE DEF at
  <2>10. Strung(c, seqs, n, b, at)
    BY <2>7, <2>8, <2>9 DEF Strung
  <2> QED BY <2>10
<1> QED BY <1>1, <1>2

\* Pieces of code make code.
LEMMA FlattenIsCode ==
  ASSUME NEW n \in Nat, n # 0, NEW seqs \in Seq(Seq(Instrs)), Len(seqs) = n
  PROVE  FlattenSeq(seqs) \in Seq(Instrs)
<1>1. PICK f : /\ FlattenSeq(seqs) = f[n] /\ f[1] = seqs[1]
               /\ \A i \in 1 .. n : i # 1 => f[i] = f[i - 1] \o seqs[i]
  BY FlattenFollows
<1>2. \A i \in 1 .. n : seqs[i] \in Seq(Instrs)
  OBVIOUS
<1>3. \A i \in 1 .. n : f[i] \in Seq(Instrs)
  <2> DEFINE Bad == {k \in Nat : k \in 1 .. n /\ f[k] \notin Seq(Instrs)}
  <2>0. ASSUME NEW i \in 1 .. n, Bad = {}
        PROVE  f[i] \in Seq(Instrs)
    <3>1. i \in Nat
      OBVIOUS
    <3>2. i \notin Bad
      BY <2>0
    <3> HIDE <2>0
    <3> QED BY <3>1, <3>2
  <2> SUFFICES ASSUME Bad # {} PROVE FALSE
    BY <2>0
  <2>1. PICK k \in Bad : \A h \in Bad : k <= h
    <3>1. Bad \in SUBSET Nat
      OBVIOUS
    <3> HIDE DEF Bad
    <3> QED BY <3>1, LeastElement
  <2>2. k \in 1 .. n /\ f[k] \notin Seq(Instrs)
    BY <2>1
  <2>3. k # 1
    BY <1>1, <1>2, <2>2
  <2>4. k - 1 \in 1 .. n /\ k - 1 \in Nat /\ ~ (k <= k - 1)
    BY <2>2, <2>3
  <2>5. f[k - 1] \in Seq(Instrs)
    BY <2>1, <2>4
  <2>6. f[k] = f[k - 1] \o seqs[k]
    BY <1>1, <2>2, <2>3
  <2> HIDE DEF Bad
  <2> QED BY <1>2, <2>2, <2>5, <2>6, ConcatIs
<1> QED BY <1>1, <1>3

\* The least of some numbers.
LEMMA MinIsLeast ==
  ASSUME NEW S, S \subseteq Nat, S # {}
  PROVE  Min(S) \in S /\ \A y \in S : Min(S) <= y
<1>1. PICK x \in S : \A y \in S : x <= y
  BY LeastElement
<1> QED
  BY <1>1 DEF Min

Code(p, n)         == LowerStatement(p)[n]
BlockCode(p, n, s) == LowerBlock(p, n, s, LowerStatement(p))

\* The code of a statement is code.
LEMMA CodeIsCode ==
  ASSUME NEW p, IsTree(p), NEW n \in Stmts(p)
  PROVE  Code(p, n) \in Seq(Instrs)
<1>1. Fine(FALSE, p, n)
  BY AllFine
<1> QED
  BY <1>1, PieceIsCode DEF Fine, Code

\* The statements of a block lie between b and e in source order, each at its
\* place and none with a gap before it.
Rowed(p, c, n, s, b, e, at) ==
  LET members == Members(p, n, s)
      stop(m) == at[m] + Len(Code(p, m))
      next(m) == {x \in members : x > m}
  IN  /\ b \in Nat \ {0} /\ e \in Nat /\ b <= e
      /\ \A m \in members :
           /\ Holds(c, at[m], Code(p, m))
           /\ b <= at[m] /\ stop(m) <= e
           /\ stop(m) = IF next(m) = {} THEN e ELSE at[Min(next(m))]
      /\ b = IF members = {} THEN e ELSE at[Min(members)]

\* The code of a block is the code of its statements, one after the other.
LEMMA BlockRows ==
  ASSUME NEW p, IsTree(p), NEW c, NEW n, NEW s, NEW b, Holds(c, b, BlockCode(p, n, s))
  PROVE  \E at : Rowed(p, c, n, s, b, b + Len(BlockCode(p, n, s)), at)
<1> DEFINE N == Len(p.kind)
           M == Members(p, n, s)
           seqs == [x \in Stmts(p) |-> IF x \in M THEN Code(p, x) ELSE << >>]
<1>1. N \in Nat /\ Stmts(p) = 1 .. N /\ M \subseteq 1 .. N
  BY TreeFacts DEF Members
<1>2. seqs \in Seq(Seq(Instrs)) /\ Len(seqs) = N
  <2>1. \A x \in 1 .. N : seqs[x] \in Seq(Instrs)
    BY <1>1, CodeIsCode
  <2>2. seqs \in [1 .. N -> Seq(Instrs)]
    BY <1>1, <2>1
  <2> HIDE DEF seqs, N
  <2> QED BY <1>1, <2>2
<1>3. BlockCode(p, n, s) = FlattenSeq(seqs)
  BY DEF BlockCode, LowerBlock, Code
<1> DEFINE flat == FlattenSeq(seqs)
<1>4. \A x \in 1 .. N : /\ x \in M => Len(seqs[x]) = Len(Code(p, x)) /\ seqs[x] = Code(p, x)
                        /\ x \notin M => Len(seqs[x]) = 0
                        /\ Len(seqs[x]) \in Nat
  BY <1>1, <1>2
<1> HIDE DEF N, M, seqs, flat
<1>5. PICK row : Strung(c, seqs, N, b, row)
  BY <1>1, <1>2, <1>3, RowHolds DEF flat
<1>6. /\ row \in [0 .. N -> Nat \ {0}] /\ row[0] = b
      /\ row[N] = b + Len(BlockCode(p, n, s))
      /\ \A i \in 1 .. N : row[i] = row[i - 1] + Len(seqs[i]) /\ Holds(c, row[i - 1], seqs[i])
  BY <1>3, <1>5 DEF Strung
<1> DEFINE e == b + Len(BlockCode(p, n, s))
           at == [m \in Stmts(p) |-> row[m - 1]]
<1>7. \A i \in 1 .. N : i - 1 \in 0 .. N /\ i \in 0 .. N /\ row[i - 1] <= row[i]
  <2> TAKE i \in 1 .. N
  <2>1. i - 1 \in 0 .. N /\ i \in 0 .. N
    BY <1>1
  <2>2. row[i - 1] \in Nat /\ Len(seqs[i]) \in Nat
    BY <1>4, <1>6, <2>1
  <2> QED BY <1>6, <2>1, <2>2
<1>8. row \in [0 .. N -> Nat]
  BY <1>6
<1>9. \A i \in 0 .. N : \A j \in i .. N : row[i] <= row[j]
  BY <1>1, <1>7, <1>8, RowRises
<1>10. ASSUME NEW i \in 0 .. N, NEW j \in i .. N, \A x \in M : ~ (i < x /\ x <= j)
       PROVE  row[i] = row[j]
  <2>1. \A k \in i + 1 .. j : row[k] = row[k - 1]
    <3> TAKE k \in i + 1 .. j
    <3>1. k \in 1 .. N /\ i < k /\ k <= j
      BY <1>1
    <3>2. Len(seqs[k]) = 0 /\ row[k - 1] \in Nat
      BY <1>4, <1>6, <1>7, <1>10, <3>1
    <3> QED BY <1>6, <3>1, <3>2
  <2> QED BY <1>1, <2>1, RowRests
<1>11. ASSUME NEW m \in M
       PROVE  /\ at[m] = row[m - 1] /\ at[m] + Len(Code(p, m)) = row[m]
              /\ Holds(c, at[m], Code(p, m))
  BY <1>1, <1>4, <1>6, <1>11
<1>12. e = row[N] /\ b = row[0] /\ b \in Nat \ {0} /\ e \in Nat /\ b <= e
  <2>1. 0 \in 0 .. N /\ N \in 0 .. N
    BY <1>1
  <2> QED BY <1>6, <1>9, <2>1
<1> HIDE DEF e, at
<1>13. ASSUME NEW m \in M
       PROVE  /\ b <= at[m] /\ at[m] + Len(Code(p, m)) <= e
              /\ at[m] + Len(Code(p, m)) =
                   IF {x \in M : x > m} = {} THEN e ELSE at[Min({x \in M : x > m})]
  <2>1. m \in 1 .. N /\ m - 1 \in 0 .. N /\ m \in 0 .. N /\ N \in m .. N /\ 0 \in 0 .. N
        /\ m - 1 \in 0 .. N
    BY <1>1
  <2>2. b <= at[m] /\ at[m] + Len(Code(p, m)) <= e
    BY <1>9, <1>11, <1>12, <2>1
  <2> DEFINE later == {x \in M : x > m}
  <2>3. CASE later = {}
    <3>1. row[m] = row[N]
      <4>1. \A x \in M : ~ (m < x /\ x <= N)
        BY <1>1, <2>1, <2>3
      <4> QED BY <1>10, <2>1, <4>1
    <3> QED BY <1>11, <1>12, <2>2, <2>3, <3>1
  <2>4. CASE later # {}
    <3>0. M \subseteq Nat
      BY <1>1
    <3>1. later \subseteq Nat
      BY <3>0
    <3>2. Min(later) \in later /\ \A y \in later : Min(later) <= y
      <4> HIDE DEF later
      <4> QED BY <2>4, <3>1, MinIsLeast
    <3> DEFINE j == Min(later)
    <3>3. j \in M /\ j > m /\ \A x \in M : x > m => j <= x
      BY <3>2
    <3> HIDE DEF j
    <3>4. j \in 1 .. N /\ j - 1 \in m .. N
      BY <1>1, <2>1, <3>3
    <3>5. \A x \in M : ~ (m < x /\ x <= j - 1)
      BY <1>1, <2>1, <3>3, <3>4
    <3>6. row[m] = row[j - 1]
      BY <1>10, <2>1, <3>4, <3>5
    <3>7. at[j] = row[j - 1]
      BY <1>11, <3>3
    <3> QED BY <1>11, <2>2, <2>4, <3>6, <3>7 DEF j
  <2> QED BY <2>2, <2>3, <2>4
<1>14. b = IF M = {} THEN e ELSE at[Min(M)]
  <2>1. CASE M = {}
    <3>1. row[0] = row[N]
      <4>1. 0 \in 0 .. N /\ N \in 0 .. N
        BY <1>1
      <4> QED BY <1>10, <2>1, <4>1
    <3> QED BY <1>12, <2>1, <3>1
  <2>2. CASE M # {}
    <3>1. M \subseteq Nat
      BY <1>1
    <3>2. Min(M) \in M /\ \A y \in M : Min(M) <= y
      BY <2>2, <3>1, MinIsLeast
    <3> DEFINE j == Min(M)
    <3>3. j \in M /\ \A x \in M : j <= x
      BY <3>2
    <3> HIDE DEF j
    <3>4. j \in 1 .. N /\ j - 1 \in 0 .. N /\ 0 \in 0 .. N
      BY <1>1, <3>3
    <3>5. \A x \in M : ~ (0 < x /\ x <= j - 1)
      BY <1>1, <3>3, <3>4
    <3>6. row[0] = row[j - 1]
      BY <1>10, <3>4, <3>5
    <3>7. at[j] = row[j - 1]
      BY <1>11, <3>3
    <3> QED BY <1>12, <2>2, <3>6, <3>7 DEF j
  <2> QED BY <2>1, <2>2
<1>15. Rowed(p, c, n, s, b, e, at)
  BY <1>11, <1>12, <1>13, <1>14 DEF Rowed, M
<1> QED BY <1>15 DEF e

-----------------------------------------------------------------------------
(***************************************************************************)
(* What a statement's code is made of.                                     *)
(***************************************************************************)

\* The instruction at a position.
Has(c, at, x) == at \in DOMAIN c /\ c[at] = x

\* Code of one, of two and of three parts.
LEMMA HoldsOne ==
  ASSUME NEW c, NEW b, NEW x, Holds(c, b, << x >>)
  PROVE  Has(c, b, x) /\ b \in Nat \ {0}
  BY DEF Holds, Has

LEMMA HoldsTwo ==
  ASSUME NEW c, NEW b, NEW x, NEW y, Holds(c, b, << x, y >>)
  PROVE  Has(c, b, x) /\ Has(c, b + 1, y) /\ b \in Nat \ {0}
<1>1. b \in Nat \ {0} /\ \A i \in 1 .. 2 : b + i - 1 \in DOMAIN c /\ c[b + i - 1] = << x, y >>[i]
  BY DEF Holds
<1>2. b + 1 - 1 = b /\ b + 2 - 1 = b + 1
  BY <1>1
<1> QED
  BY <1>1, <1>2 DEF Has

\* The code that decides the i-th condition or matcher.
Condition(p, n, i) ==
  IF p.kind[n] = "switch" THEN << Test(<<n, "case", i>>, "cond") >> ELSE LowerCondition(p, n, i)

ArmCode(cond, n, i, body) ==
  cond \o << JumpIfFalse(Miss(n, i)) >> \o body \o << Jump(End(n)), Label(Miss(n, i)) >>

\* The code of a branch is code, and where its parts are.
LEMMA ArmIsCode ==
  ASSUME NEW n \in Nat, NEW i \in Nat, NEW cond \in Seq(Instrs), NEW body \in Seq(Instrs)
  PROVE  ArmCode(cond, n, i, body) \in Seq(Instrs)
<1>1. << JumpIfFalse(Miss(n, i)) >> \in Seq(Instrs) /\ << Jump(End(n)), Label(Miss(n, i)) >> \in Seq(Instrs)
  <2>1. JumpIfFalse(Miss(n, i)) \in Instrs /\ Jump(End(n)) \in Instrs /\ Label(Miss(n, i)) \in Instrs
    BY InstrTypes, LabelsOf
  <2> QED BY <2>1
<1>2. cond \o << JumpIfFalse(Miss(n, i)) >> \in Seq(Instrs)
  BY <1>1, ConcatIs
<1>3. cond \o << JumpIfFalse(Miss(n, i)) >> \o body \in Seq(Instrs)
  BY <1>2, ConcatIs
<1> QED BY <1>1, <1>3, ConcatIs DEF ArmCode

\* A condition at `test`, the jump past its block, the block, and the jump and
\* the label behind it.
Arm(c, cond, n, i, body, test, in, out) ==
  /\ Holds(c, test, cond)
  /\ Has(c, test + Len(cond), JumpIfFalse(Miss(n, i)))
  /\ in = test + Len(cond) + 1
  /\ Holds(c, in, body)
  /\ out = in + Len(body)
  /\ Has(c, out, Jump(End(n)))
  /\ Has(c, out + 1, Label(Miss(n, i)))

LEMMA ArmHolds ==
  ASSUME NEW c, NEW n \in Nat, NEW i \in Nat, NEW cond \in Seq(Instrs), NEW body \in Seq(Instrs),
         NEW b,
         Holds(c, b, ArmCode(cond, n, i, body))
  PROVE  LET in == b + Len(cond) + 1
             out == in + Len(body)
         IN  /\ Arm(c, cond, n, i, body, b, in, out)
             /\ out + 2 = b + Len(ArmCode(cond, n, i, body))
             /\ b \in Nat \ {0} /\ in \in Nat /\ out \in Nat /\ b <= in /\ in <= out
<1> DEFINE j == JumpIfFalse(Miss(n, i))
           x == Jump(End(n))
           y == Label(Miss(n, i))
<1>1. j \in Instrs /\ x \in Instrs /\ y \in Instrs
  BY InstrTypes, LabelsOf
<1> DEFINE jump == << j >>
           tail == << x, y >>
<1>2. /\ jump \in Seq(Instrs) /\ Len(jump) = 1
      /\ tail \in Seq(Instrs) /\ Len(tail) = 2
  <2> HIDE DEF j, x, y
  <2> QED BY <1>1
<1> DEFINE u == cond \o jump
           v == u \o body
           w == v \o tail
<1>15. w = ArmCode(cond, n, i, body)
  BY DEF ArmCode
<1>5. Holds(c, b, w)
  BY <1>15
<1> HIDE DEF jump, tail
<1>16. jump \in Seq(Instrs) /\ tail \in Seq(Instrs)
  BY <1>2
<1>3. u \in Seq(Instrs)
  BY <1>2, ConcatIs
<1> HIDE DEF u
<1>4. v \in Seq(Instrs)
  BY <1>3, ConcatIs
<1> HIDE DEF v
<1>6. Holds(c, b, v) /\ Holds(c, b + Len(v), tail) /\ Len(w) = Len(v) + 2
  <2>1. Holds(c, b, v) /\ Holds(c, b + Len(v), tail) /\ Len(v \o tail) = Len(v) + Len(tail)
    <3>1. v \in Seq(Instrs) /\ tail \in Seq(Instrs) /\ Holds(c, b, v \o tail)
      BY <1>4, <1>5, <1>16
    <3> HIDE DEF w
    <3> QED BY <3>1, HoldsJoin
  <2> QED BY <1>2, <2>1
<1> HIDE DEF w
<1>8. Holds(c, b, u) /\ Holds(c, b + Len(u), body) /\ Len(v) = Len(u) + Len(body)
  <2>1. Holds(c, b, u \o body)
    BY <1>6 DEF v
  <2>2. Holds(c, b, u) /\ Holds(c, b + Len(u), body) /\ Len(u \o body) = Len(u) + Len(body)
    BY <1>3, <2>1, HoldsJoin
  <2> QED BY <2>2 DEF v
<1>10. Holds(c, b, cond) /\ Holds(c, b + Len(cond), jump) /\ Len(u) = Len(cond) + 1
  <2>1. Holds(c, b, cond \o jump)
    BY <1>8 DEF u
  <2>2. Holds(c, b, cond) /\ Holds(c, b + Len(cond), jump) /\ Len(cond \o jump) = Len(cond) + Len(jump)
    <3>1. jump \in Seq(Instrs)
      BY <1>16
    <3> QED BY <2>1, <3>1, HoldsJoin
  <2> QED BY <1>2, <2>2 DEF u
<1>11. b \in Nat \ {0} /\ Len(cond) \in Nat /\ Len(body) \in Nat
  BY <1>10 DEF Holds
<1>12. /\ b + Len(u) = b + Len(cond) + 1
       /\ b + Len(v) = b + Len(cond) + 1 + Len(body)
       /\ b + Len(w) = b + Len(cond) + 1 + Len(body) + 2
  BY <1>6, <1>8, <1>10, <1>11
<1> HIDE DEF j, x, y
<1>13. /\ Has(c, b + Len(cond), j)
       /\ Has(c, b + Len(v), x) /\ Has(c, b + Len(v) + 1, y)
  BY <1>6, <1>10, HoldsOne, HoldsTwo DEF jump, tail
<1>14. Arm(c, cond, n, i, body, b, b + Len(cond) + 1, b + Len(cond) + 1 + Len(body))
  BY <1>8, <1>10, <1>12, <1>13 DEF Arm, j, x, y
<1> QED
  BY <1>11, <1>12, <1>14, <1>15

ArmsCode(n, cond, body) ==
  FlattenSeq([i \in 1 .. Arms |-> ArmCode(cond[i], n, i, body[i])])
    \o body[Arms + 1] \o << Label(End(n)) >>

\* The branches of a choice, from b up to its end.
Armed(c, cond, n, b, body, k) ==
  /\ k.test[1] = b
  /\ \A i \in 1 .. Arms :
       /\ Arm(c, cond[i], n, i, body[i], k.test[i], k.in[i], k.out[i])
       /\ k.out[i] + 2 = IF i = Arms THEN k.in[Arms + 1] ELSE k.test[i + 1]
       /\ b <= k.in[i] /\ k.out[i] < k.in[Arms + 1]
  /\ b <= k.in[Arms + 1]
  /\ Holds(c, k.in[Arms + 1], body[Arms + 1])
  /\ k.out[Arms + 1] = k.in[Arms + 1] + Len(body[Arms + 1])
  /\ Has(c, k.out[Arms + 1], Label(End(n)))

\* The branches of a choice follow one another.
LEMMA ArmsHold ==
  ASSUME NEW c, NEW n \in Nat, NEW cond, NEW body, NEW b,
         \A i \in 1 .. Arms : cond[i] \in Seq(Instrs),
         \A s \in 1 .. (Arms + 1) : body[s] \in Seq(Instrs),
         Holds(c, b, ArmsCode(n, cond, body))
  PROVE  \E k : Armed(c, cond, n, b, body, k) /\ b + Len(ArmsCode(n, cond, body)) = k.out[Arms + 1] + 1
<1> DEFINE arm(i) == ArmCode(cond[i], n, i, body[i])
           arms == [i \in 1 .. Arms |-> arm(i)]
<1>1. Arms \in Nat \ {0}
  BY ArmsAssumption
<1>2. ASSUME NEW i \in 1 .. Arms
      PROVE  arm(i) \in Seq(Instrs)
  <2>1. i \in Nat /\ cond[i] \in Seq(Instrs) /\ body[i] \in Seq(Instrs)
    BY <1>1
  <2> QED BY <2>1, ArmIsCode
<1>3. arms \in Seq(Seq(Instrs)) /\ Len(arms) = Arms /\ \A i \in 1 .. Arms : arms[i] = arm(i)
  <2> HIDE DEF arm
  <2>1. \A i \in 1 .. Arms : arm(i) \in Seq(Instrs)
    BY <1>2
  <2> QED BY <1>1, <2>1
<1> DEFINE last == body[Arms + 1]
           row == FlattenSeq(arms)
           end == << Label(End(n)) >>
           code0 == ArmsCode(n, cond, body)
<1>4. code0 = row \o last \o end /\ Holds(c, b, code0)
  BY DEF ArmsCode
<1> HIDE DEF code0
<1>5. last \in Seq(Instrs) /\ end \in Seq(Instrs) /\ Len(end) = 1
  <2>1. Label(End(n)) \in Instrs
    BY InstrTypes, LabelsOf
  <2> QED BY <1>1, <2>1
<1> HIDE DEF arms, last, end
<1>6. row \in Seq(Instrs)
  BY <1>1, <1>3, FlattenIsCode
<1> HIDE DEF row
<1>7. row \o last \in Seq(Instrs)
  BY <1>5, <1>6, ConcatIs
<1> DEFINE most == row \o last
<1>8. /\ Holds(c, b, most) /\ Holds(c, b + Len(most), end)
      /\ Len(code0) = Len(most) + 1
  <2>1. code0 = most \o end /\ most \in Seq(Instrs)
    BY <1>4, <1>7
  <2> HIDE DEF most
  <2>2. Holds(c, b, most \o end)
    BY <1>4, <2>1
  <2>3. Holds(c, b, most) /\ Holds(c, b + Len(most), end) /\ Len(most \o end) = Len(most) + Len(end)
    <3>1. end \in Seq(Instrs) /\ most \in Seq(Instrs)
      BY <1>5, <2>1
    <3> QED BY <2>2, <3>1, HoldsJoin
  <2> QED BY <1>5, <2>1, <2>3
<1>9. Holds(c, b, row) /\ Holds(c, b + Len(row), last) /\ Len(most) = Len(row) + Len(last)
  <2>1. last \in Seq(Instrs) /\ Holds(c, b, row \o last)
    BY <1>5, <1>8
  <2>2. /\ Holds(c, b, row) /\ Holds(c, b + Len(row), last)
        /\ Len(row \o last) = Len(row) + Len(last)
    BY <1>6, <2>1, HoldsJoin
  <2> QED BY <2>2
<1> HIDE DEF most
<1>10. PICK at : Strung(c, arms, Arms, b, at)
  BY <1>1, <1>3, <1>9, RowHolds DEF row
<1>11. /\ at \in [0 .. Arms -> Nat \ {0}] /\ at[0] = b /\ at[Arms] = b + Len(row)
       /\ \A i \in 1 .. Arms : at[i] = at[i - 1] + Len(arms[i]) /\ Holds(c, at[i - 1], arms[i])
  BY <1>10 DEF Strung, row
<1> DEFINE in == [s \in 1 .. (Arms + 1) |-> IF s = Arms + 1 THEN at[Arms] ELSE at[s - 1] + Len(cond[s]) + 1]
           out == [s \in 1 .. (Arms + 1) |-> in[s] + Len(body[s])]
           test == [i \in 1 .. Arms |-> at[i - 1]]
           k == [test |-> test, in |-> in, out |-> out]
<1> HIDE DEF arm
<1>12. ASSUME NEW i \in 1 .. Arms
       PROVE  /\ Arm(c, cond[i], n, i, body[i], at[i - 1], in[i], out[i])
              /\ out[i] + 2 = at[i] /\ in[i] \in Nat
              /\ at[i - 1] \in Nat /\ at[i - 1] <= in[i] /\ in[i] <= out[i] /\ out[i] \in Nat
  <2>1. i \in Nat /\ cond[i] \in Seq(Instrs) /\ body[i] \in Seq(Instrs) /\ i \in 1 .. (Arms + 1)
        /\ i # Arms + 1
    BY <1>1
  <2>2. in[i] = at[i - 1] + Len(cond[i]) + 1 /\ out[i] = at[i - 1] + Len(cond[i]) + 1 + Len(body[i])
    BY <2>1
  <2>3. Holds(c, at[i - 1], arm(i)) /\ at[i] = at[i - 1] + Len(arm(i))
    BY <1>3, <1>11
  <2> HIDE DEF in, out
  <2> DEFINE h == cond[i]
             d == body[i]
             x == at[i - 1]
             a == arm(i)
  <2>4. a = ArmCode(h, n, i, d)
    BY DEF arm
  <2>5. h \in Seq(Instrs) /\ d \in Seq(Instrs) /\ Holds(c, x, a)
    BY <2>1, <2>3
  <2> HIDE DEF h, d, x, a
  <2>6. LET in0 == x + Len(h) + 1
            out0 == in0 + Len(d)
        IN  /\ Arm(c, h, n, i, d, x, in0, out0)
            /\ out0 + 2 = x + Len(a)
            /\ x \in Nat \ {0} /\ in0 \in Nat /\ out0 \in Nat /\ x <= in0 /\ in0 <= out0
    BY <2>1, <2>4, <2>5, ArmHolds
  <2> QED BY <2>2, <2>3, <2>6 DEF h, d, x, a
<1>13. \A i \in 1 .. Arms : i - 1 \in 0 .. Arms /\ i \in 0 .. Arms /\ at[i - 1] <= at[i]
  <2> TAKE i \in 1 .. Arms
  <2>1. i - 1 \in 0 .. Arms /\ i \in 0 .. Arms /\ at[i] \in Nat
    BY <1>1, <1>11
  <2>2. /\ out[i] + 2 = at[i] /\ in[i] \in Nat
        /\ at[i - 1] \in Nat /\ at[i - 1] <= in[i] /\ in[i] <= out[i] /\ out[i] \in Nat
    BY <1>12
  <2> HIDE DEF in, out, test, k
  <2> QED BY <2>1, <2>2
<1>14. \A i \in 0 .. Arms : \A j \in i .. Arms : at[i] <= at[j]
  <2>1. at \in [0 .. Arms -> Nat]
    BY <1>11
  <2> QED BY <1>1, <1>13, <2>1, RowRises
<1>15. k.test = test /\ k.in = in /\ k.out = out
  OBVIOUS
<1>16. in[Arms + 1] = at[Arms] /\ out[Arms + 1] = at[Arms] + Len(last)
  BY <1>1 DEF last
<1>17. test[1] = b /\ \A i \in 1 .. Arms : test[i] = at[i - 1]
  BY <1>1, <1>11
<1>18. at[Arms] \in Nat /\ b \in Nat /\ b <= at[Arms] /\ Len(last) \in Nat /\ Len(row) \in Nat
  <2>1. Arms \in 0 .. Arms /\ 0 \in 0 .. Arms
    BY <1>1
  <2>2. at[Arms] \in Nat /\ b \in Nat /\ b <= at[Arms]
    BY <1>11, <1>14, <2>1
  <2> QED BY <1>5, <1>6, <2>2
<1> HIDE DEF in, out, test, k
<1>19. ASSUME NEW i \in 1 .. Arms
       PROVE  /\ out[i] + 2 = IF i = Arms THEN in[Arms + 1] ELSE test[i + 1]
              /\ b <= in[i] /\ out[i] < in[Arms + 1]
  <2>1. i # Arms => i + 1 \in 1 .. Arms /\ test[i + 1] = at[i]
    <3>1. i # Arms => i + 1 \in 1 .. Arms /\ (i + 1) - 1 = i
      BY <1>1
    <3> QED BY <1>17, <3>1
  <2>2. 0 \in 0 .. Arms /\ i - 1 \in 0 .. Arms /\ i \in 0 .. Arms /\ Arms \in i .. Arms
    BY <1>1
  <2>3. b <= at[i - 1] /\ at[i] <= at[Arms] /\ at[i] \in Nat
    BY <1>11, <1>14, <2>2
  <2>4. out[i] + 2 = at[i] /\ at[i - 1] \in Nat /\ at[i - 1] <= in[i] /\ in[i] <= out[i] /\ out[i] \in Nat
        /\ in[i] \in Nat
    BY <1>12
  <2>5. out[i] + 2 = IF i = Arms THEN in[Arms + 1] ELSE test[i + 1]
    BY <1>16, <2>1, <2>4
  <2>6. b <= in[i] /\ out[i] < in[Arms + 1]
    <3>1. \A v, w, x, y, z \in Nat :
             v <= w /\ w <= x /\ x <= y /\ y + 2 <= z => v <= x /\ y < z
      OBVIOUS
    <3>2. at[Arms] \in Nat /\ b \in Nat
      BY <1>18
    <3> QED BY <1>16, <2>3, <2>4, <3>1, <3>2
  <2> QED BY <2>5, <2>6
<1>20. Holds(c, in[Arms + 1], last)
  BY <1>9, <1>11, <1>16
<1>21. Has(c, out[Arms + 1], Label(End(n)))
  <2>1. b + Len(most) = out[Arms + 1]
    BY <1>9, <1>11, <1>16, <1>18
  <2>2. Holds(c, out[Arms + 1], << Label(End(n)) >>)
    BY <1>8, <2>1 DEF end
  <2> QED BY <2>2, HoldsOne
<1>22. Armed(c, cond, n, b, body, k)
  BY <1>12, <1>15, <1>16, <1>17, <1>18, <1>19, <1>20, <1>21 DEF Armed, last
<1>23. b + Len(code0) = k.out[Arms + 1] + 1
  <2>1. Len(code0) = Len(row) + Len(last) + 1
    BY <1>8, <1>9
  <2>2. k.out[Arms + 1] = b + Len(row) + Len(last)
    BY <1>11, <1>15, <1>16
  <2> QED BY <1>18, <2>1, <2>2
<1> QED BY <1>22, <1>23 DEF code0

LEMMA HoldsThree ==
  ASSUME NEW c, NEW b, NEW u \in Seq(Instrs), NEW v \in Seq(Instrs), NEW w \in Seq(Instrs),
         Holds(c, b, u \o v \o w)
  PROVE  /\ Holds(c, b, u) /\ Holds(c, b + Len(u), v) /\ Holds(c, b + Len(u) + Len(v), w)
         /\ Len(u \o v \o w) = Len(u) + Len(v) + Len(w)
         /\ b \in Nat \ {0} /\ Len(u) \in Nat /\ Len(v) \in Nat /\ Len(w) \in Nat
<1> DEFINE x == u \o v
<1>1. x \in Seq(Instrs) /\ Holds(c, b, x \o w)
  BY ConcatIs
<1> HIDE DEF x
<1>2. Holds(c, b, x) /\ Holds(c, b + Len(x), w) /\ Len(x \o w) = Len(x) + Len(w)
  BY <1>1, HoldsJoin
<1>3. Holds(c, b, u) /\ Holds(c, b + Len(u), v) /\ Len(x) = Len(u) + Len(v)
  <2>1. Holds(c, b, u \o v)
    BY <1>2 DEF x
  <2> QED BY <2>1, HoldsJoin DEF x
<1>4. b \in Nat \ {0} /\ Len(u) \in Nat /\ Len(v) \in Nat /\ Len(w) \in Nat
  BY <1>3 DEF Holds
<1>5. b + Len(x) = b + Len(u) + Len(v)
  BY <1>3, <1>4
<1> QED
  BY <1>2, <1>3, <1>4, <1>5 DEF x

\* A block of statement n, where its frame has it.
Framed(p, c, n, s, b, k) ==
  /\ Holds(c, k.in[s], BlockCode(p, n, s))
  /\ k.out[s] = k.in[s] + Len(BlockCode(p, n, s))
  /\ b <= k.in[s]

\* The frames of the kinds of statements, and where their code ends.
ChoiceFrame(p, c, n, b, k, stop) ==
  /\ p.kind[n] = "if" => k.test[1] = b
  /\ p.kind[n] = "switch" => Has(c, b, Eval(<<n, "subject", 0>>)) /\ k.test[1] = b + 1
  /\ \A i \in 1 .. Arms :
       /\ Arm(c, Condition(p, n, i), n, i, BlockCode(p, n, i), k.test[i], k.in[i], k.out[i])
       /\ k.out[i] + 2 = IF i = Arms THEN k.in[Arms + 1] ELSE k.test[i + 1]
       /\ b <= k.in[i] /\ k.out[i] < k.in[Arms + 1]
  /\ Framed(p, c, n, Arms + 1, b, k)
  /\ Has(c, k.out[Arms + 1], Label(End(n)))
  /\ stop = k.out[Arms + 1] + 1

TryFrame(p, c, n, b, k, stop) ==
  /\ Has(c, b, PushTry(Catch(n)))
  /\ k.in[1] = b + 1
  /\ Framed(p, c, n, 1, b, k)
  /\ Has(c, k.out[1], Jump(End(n)))
  /\ Has(c, k.out[1] + 1, Label(Catch(n)))
  /\ Has(c, k.out[1] + 2, StoreLastError(<<n, "catch", 0>>))
  /\ k.in[2] = k.out[1] + 3
  /\ Framed(p, c, n, 2, b, k)
  /\ Has(c, k.out[2], Label(End(n)))
  /\ stop = k.out[2] + 1

WhileFrame(p, c, n, b, k, stop) ==
  /\ Has(c, b, Label(HeadLabel(n)))
  /\ k.test[1] = b + 1
  /\ Holds(c, b + 1, LowerCondition(p, n, 1))
  /\ Has(c, b + 1 + Len(LowerCondition(p, n, 1)), JumpIfFalse(End(n)))
  /\ k.in[1] = b + 1 + Len(LowerCondition(p, n, 1)) + 1
  /\ Framed(p, c, n, 1, b, k)
  /\ Has(c, k.out[1], Jump(HeadLabel(n)))
  /\ Has(c, k.out[1] + 1, Label(End(n)))
  /\ stop = k.out[1] + 2

ForFrame(p, c, n, b, k, stop) ==
  /\ Has(c, b, IterStart(<<n, "for", 0>>))
  /\ Has(c, b + 1, Label(HeadLabel(n)))
  /\ Has(c, b + 2, IterHasNext(<<n, "for", 0>>))
  /\ Has(c, b + 3, JumpIfFalse(End(n)))
  /\ Has(c, b + 4, IterNext(<<n, "for", 0>>))
  /\ Has(c, b + 5, StoreBinding(<<n, "bind", 0>>))
  /\ k.in[1] = b + 6
  /\ Framed(p, c, n, 1, b, k)
  /\ Has(c, k.out[1], Jump(HeadLabel(n)))
  /\ Has(c, k.out[1] + 1, Label(End(n)))
  /\ stop = k.out[1] + 2

Frame(p, c, n, b, k) ==
  LET stop == b + Len(Code(p, n)) IN
  /\ p.kind[n] = "act" => Has(c, b, Eval(<<n, "act", 0>>)) /\ stop = b + 1
  /\ p.kind[n] = "return" => Holds(c, b, EmitReturnFromOutputs(p))
  /\ p.kind[n] = "break" /\ LoopOf(p, n) # 0 => Has(c, b, Jump(End(LoopOf(p, n))))
  /\ p.kind[n] = "continue" /\ LoopOf(p, n) # 0 => Has(c, b, Jump(HeadLabel(LoopOf(p, n))))
  /\ p.kind[n] \in Branchings => ChoiceFrame(p, c, n, b, k, stop)
  /\ p.kind[n] = "try" => TryFrame(p, c, n, b, k, stop)
  /\ p.kind[n] = "while" => WhileFrame(p, c, n, b, k, stop)
  /\ p.kind[n] = "for" => ForFrame(p, c, n, b, k, stop)

\* The blocks of a statement, by its kind.
LEMMA SlotsOf ==
  ASSUME NEW kind \in Kinds
  PROVE  /\ kind \in Branchings => Slots(kind) = 1 .. (Arms + 1)
         /\ kind = "try" => Slots(kind) = 1 .. 2
         /\ kind \in Loops => Slots(kind) = {1}
         /\ kind \notin Branchings \cup Loops \cup {"try"} => Slots(kind) = {}
<1>1. CASE kind \in Branchings
  <2>1. kind \notin Loops /\ kind # "try"
    BY <1>1 DEF Branchings, Loops
  <2> QED BY <1>1, <2>1 DEF Slots
<1>2. CASE kind \in Loops
  <2>1. kind \notin Branchings /\ kind # "try"
    BY <1>2 DEF Branchings, Loops
  <2> QED BY <1>2, <2>1 DEF Slots
<1>3. CASE kind = "try"
  <2>1. kind \notin Branchings /\ kind \notin Loops
    BY <1>3 DEF Branchings, Loops
  <2> QED BY <1>3, <2>1 DEF Slots
<1>4. CASE kind \notin Branchings /\ kind \notin Loops /\ kind # "try"
  BY <1>4 DEF Slots
<1> QED BY <1>1, <1>2, <1>3, <1>4

\* What a lowered statement is, and of what.
LEMMA CodeIs ==
  ASSUME NEW p, IsTree(p), NEW n \in Stmts(p)
  PROVE  \E body : /\ Code(p, n) = Lower(p, n, body)
                   /\ \A s \in Slots(p.kind[n]) :
                        body[s] = BlockCode(p, n, s) /\ body[s] \in Seq(Instrs)
<1> DEFINE body == Blocks(p, n, LowerStatement(p))
<1>1. Code(p, n) = Lower(p, n, body)
  BY LoweringIs DEF Code
<1>2. \A s \in Slots(p.kind[n]) : body[s] = BlockCode(p, n, s)
  BY DEF Blocks, BlockCode
<1>3. \A m \in Stmts(p) : n < m => Fine(FALSE, p, m)
  BY AllFine
<1>4. ASSUME NEW s \in Slots(p.kind[n]) PROVE BlockCode(p, n, s) \in Seq(Instrs)
  <2>1. \E F, B : Piece(FALSE, BlockCode(p, n, s), {}, F, B, {})
    BY <1>3, BlocksAreFine DEF BlockCode
  <2> QED BY <2>1, PieceIsCode
<1> QED BY <1>1, <1>2, <1>4

\* The code of a statement of each kind, wherever it lies, fits its frame.
LEMMA WhileHolds ==
  ASSUME NEW p, IsTree(p), NEW n \in Stmts(p), p.kind[n] = "while",
         NEW c, NEW b, Holds(c, b, Code(p, n))
  PROVE  \E k : WhileFrame(p, c, n, b, k, b + Len(Code(p, n)))
<1>1. PICK body : /\ Code(p, n) = Lower(p, n, body)
                  /\ body[1] = BlockCode(p, n, 1) /\ body[1] \in Seq(Instrs)
  BY CodeIs DEF Slots, Loops, Branchings
<1> DEFINE cond == LowerCondition(p, n, 1)
           x == Label(HeadLabel(n))
           y == JumpIfFalse(End(n))
           z == Jump(HeadLabel(n))
           e == Label(End(n))
           d == BlockCode(p, n, 1)
           xs == << x >>
           ys == << y >>
           tail == << z, e >>
<1>2. n \in Nat /\ p.test[n] \in Tests
  BY TreeFacts
<1>3. x \in Instrs /\ y \in Instrs /\ z \in Instrs /\ e \in Instrs
  BY <1>2, InstrTypes, LabelsOf
<1>4. cond \in Seq(Instrs) /\ Len(cond) \in Nat
  BY <1>2, ConditionIsPlain
<1>5. Code(p, n) = xs \o cond \o ys \o d \o tail
  BY <1>1 DEF Lower, LowerWhile, Loops
<1> HIDE DEF x, y, z, e, cond, d
<1>6. /\ xs \in Seq(Instrs) /\ ys \in Seq(Instrs) /\ tail \in Seq(Instrs) /\ d \in Seq(Instrs)
      /\ Len(xs) = 1 /\ Len(ys) = 1 /\ Len(tail) = 2 /\ Len(d) \in Nat
  BY <1>1, <1>3 DEF d
<1> HIDE DEF xs, ys, tail
<1> DEFINE head == xs \o cond \o ys
<1>7. head \in Seq(Instrs)
  <2>1. xs \o cond \in Seq(Instrs)
    BY <1>4, <1>6, ConcatIs
  <2> QED BY <1>6, <2>1, ConcatIs
<1>8. Code(p, n) = head \o d \o tail
  BY <1>5
<1> HIDE DEF head
<1>9. /\ Holds(c, b, head) /\ Holds(c, b + Len(head), d) /\ Holds(c, b + Len(head) + Len(d), tail)
      /\ Len(head \o d \o tail) = Len(head) + Len(d) + Len(tail)
      /\ b \in Nat \ {0}
  <2>1. d \in Seq(Instrs) /\ tail \in Seq(Instrs) /\ Holds(c, b, head \o d \o tail)
    BY <1>6, <1>8
  <2> QED BY <1>7, <2>1, HoldsThree
<1>10. /\ Holds(c, b, xs) /\ Holds(c, b + Len(xs), cond) /\ Holds(c, b + Len(xs) + Len(cond), ys)
       /\ Len(head) = Len(xs) + Len(cond) + Len(ys)
  <2>1. Holds(c, b, xs \o cond \o ys) /\ xs \in Seq(Instrs) /\ ys \in Seq(Instrs) /\ cond \in Seq(Instrs)
    BY <1>4, <1>6, <1>9 DEF head
  <2>2. /\ Holds(c, b, xs) /\ Holds(c, b + Len(xs), cond) /\ Holds(c, b + Len(xs) + Len(cond), ys)
        /\ Len(xs \o cond \o ys) = Len(xs) + Len(cond) + Len(ys)
    BY <2>1, HoldsThree
  <2> QED BY <2>2 DEF head
<1> DEFINE k == [test |-> [i \in {1} |-> b + 1],
                 in |-> [s \in {1} |-> b + 1 + Len(cond) + 1],
                 out |-> [s \in {1} |-> b + 1 + Len(cond) + 1 + Len(d)]]
<1>11. k.test[1] = b + 1 /\ k.in[1] = b + 1 + Len(cond) + 1 /\ k.out[1] = b + 1 + Len(cond) + 1 + Len(d)
  OBVIOUS
<1> HIDE DEF k
<1>12. /\ b + Len(xs) = b + 1 /\ b + Len(xs) + Len(cond) = b + 1 + Len(cond)
       /\ b + Len(head) = b + 1 + Len(cond) + 1
       /\ b + Len(head) + Len(d) = b + 1 + Len(cond) + 1 + Len(d)
       /\ b + Len(Code(p, n)) = b + 1 + Len(cond) + 1 + Len(d) + 2
       /\ b <= b + 1 + Len(cond) + 1
  <2>1. Len(head) = Len(cond) + 2 /\ Len(Code(p, n)) = Len(cond) + 2 + Len(d) + 2
    <3>1. Len(head) = Len(cond) + 2
      BY <1>4, <1>6, <1>10
    <3>2. Len(Code(p, n)) = Len(head) + Len(d) + Len(tail)
      BY <1>8, <1>9
    <3> QED BY <1>4, <1>6, <3>1, <3>2
  <2> QED BY <1>4, <1>6, <1>9, <2>1
<1>13. /\ Has(c, b, x) /\ Has(c, b + 1 + Len(cond), y)
       /\ Has(c, k.out[1], z) /\ Has(c, k.out[1] + 1, e)
  <2>1. Holds(c, b + 1 + Len(cond), ys) /\ Holds(c, k.out[1], tail)
    BY <1>9, <1>10, <1>11, <1>12
  <2> QED BY <1>10, <2>1, HoldsOne, HoldsTwo DEF xs, ys, tail
<1>14. Framed(p, c, n, 1, b, k)
  BY <1>9, <1>11, <1>12 DEF Framed, d
<1>15. WhileFrame(p, c, n, b, k, b + Len(Code(p, n)))
  BY <1>10, <1>11, <1>12, <1>13, <1>14 DEF WhileFrame, x, y, z, e, cond
<1> QED BY <1>15

LEMMA ForHolds ==
  ASSUME NEW p, IsTree(p), NEW n \in Stmts(p), p.kind[n] = "for",
         NEW c, NEW b, Holds(c, b, Code(p, n))
  PROVE  \E k : ForFrame(p, c, n, b, k, b + Len(Code(p, n)))
<1>1. PICK body : /\ Code(p, n) = Lower(p, n, body)
                  /\ body[1] = BlockCode(p, n, 1) /\ body[1] \in Seq(Instrs)
  BY CodeIs DEF Slots, Loops, Branchings
<1> DEFINE it == <<n, "for", 0>>
           var == <<n, "bind", 0>>
           h1 == IterStart(it)
           h2 == Label(HeadLabel(n))
           h3 == IterHasNext(it)
           h4 == JumpIfFalse(End(n))
           h5 == IterNext(it)
           h6 == StoreBinding(var)
           z == Jump(HeadLabel(n))
           e == Label(End(n))
           d == BlockCode(p, n, 1)
           head == << h1, h2, h3, h4, h5, h6 >>
           tail == << z, e >>
<1>2. n \in Nat
  BY TreeFacts
<1>3. /\ h1 \in Instrs /\ h2 \in Instrs /\ h3 \in Instrs /\ h4 \in Instrs /\ h5 \in Instrs
      /\ h6 \in Instrs /\ z \in Instrs /\ e \in Instrs
  <2>1. it \in SiteNames /\ var \in SiteNames
    BY <1>2 DEF SiteNames
  <2> HIDE DEF it, var
  <2> QED BY <1>2, <2>1, InstrTypes, LabelsOf
<1>4. Code(p, n) = head \o d \o tail
  BY <1>1 DEF Lower, LowerFor, Loops
<1> HIDE DEF h1, h2, h3, h4, h5, h6, z, e, d
<1>5. /\ head \in Seq(Instrs) /\ tail \in Seq(Instrs) /\ d \in Seq(Instrs)
      /\ Len(head) = 6 /\ Len(tail) = 2 /\ Len(d) \in Nat
  BY <1>1, <1>3 DEF d
<1>6. DOMAIN head = 1 .. 6 /\ head[1] = h1 /\ head[2] = h2 /\ head[3] = h3 /\ head[4] = h4
      /\ head[5] = h5 /\ head[6] = h6
  OBVIOUS
<1> HIDE DEF head, tail
<1>7. /\ Holds(c, b, head) /\ Holds(c, b + Len(head), d) /\ Holds(c, b + Len(head) + Len(d), tail)
      /\ Len(head \o d \o tail) = Len(head) + Len(d) + Len(tail)
      /\ b \in Nat \ {0}
  <2>1. head \in Seq(Instrs) /\ d \in Seq(Instrs) /\ tail \in Seq(Instrs) /\ Holds(c, b, head \o d \o tail)
    BY <1>4, <1>5
  <2> QED BY <2>1, HoldsThree
<1> DEFINE k == [in |-> [s \in {1} |-> b + 6], out |-> [s \in {1} |-> b + 6 + Len(d)]]
<1>8. k.in[1] = b + 6 /\ k.out[1] = b + 6 + Len(d)
  OBVIOUS
<1> HIDE DEF k
<1>9. /\ b + Len(head) = b + 6 /\ b + Len(head) + Len(d) = b + 6 + Len(d)
      /\ b + Len(Code(p, n)) = b + 6 + Len(d) + 2 /\ b <= b + 6
  <2>1. Len(Code(p, n)) = Len(head) + Len(d) + Len(tail)
    BY <1>4, <1>7
  <2> QED BY <1>5, <1>7, <2>1
<1>10. /\ Has(c, b, h1) /\ Has(c, b + 1, h2) /\ Has(c, b + 2, h3) /\ Has(c, b + 3, h4)
       /\ Has(c, b + 4, h5) /\ Has(c, b + 5, h6)
  <2>1. \A i \in 1 .. 6 : Has(c, b + i - 1, head[i])
    BY <1>6, <1>7 DEF Holds, Has
  <2>2. /\ b + 1 - 1 = b /\ b + 2 - 1 = b + 1 /\ b + 3 - 1 = b + 2 /\ b + 4 - 1 = b + 3
        /\ b + 5 - 1 = b + 4 /\ b + 6 - 1 = b + 5
    BY <1>7
  <2>3. 1 \in 1 .. 6 /\ 2 \in 1 .. 6 /\ 3 \in 1 .. 6 /\ 4 \in 1 .. 6 /\ 5 \in 1 .. 6 /\ 6 \in 1 .. 6
    OBVIOUS
  <2> QED BY <1>6, <2>1, <2>2, <2>3
<1>11. Has(c, k.out[1], z) /\ Has(c, k.out[1] + 1, e)
  <2>1. Holds(c, k.out[1], tail)
    BY <1>7, <1>8, <1>9
  <2> QED BY <2>1, HoldsTwo DEF tail
<1>12. Framed(p, c, n, 1, b, k)
  BY <1>7, <1>8, <1>9 DEF Framed, d
<1>13. ForFrame(p, c, n, b, k, b + Len(Code(p, n)))
  BY <1>8, <1>9, <1>10, <1>11, <1>12 DEF ForFrame, h1, h2, h3, h4, h5, h6, z, e, it, var
<1> QED BY <1>13

LEMMA TryHolds ==
  ASSUME NEW p, IsTree(p), NEW n \in Stmts(p), p.kind[n] = "try",
         NEW c, NEW b, Holds(c, b, Code(p, n))
  PROVE  \E k : TryFrame(p, c, n, b, k, b + Len(Code(p, n)))
<1>1. PICK body : /\ Code(p, n) = Lower(p, n, body)
                  /\ body[1] = BlockCode(p, n, 1) /\ body[1] \in Seq(Instrs)
                  /\ body[2] = BlockCode(p, n, 2) /\ body[2] \in Seq(Instrs)
  BY CodeIs DEF Slots, Loops, Branchings
<1> DEFINE x == PushTry(Catch(n))
           y1 == Jump(End(n))
           y2 == Label(Catch(n))
           y3 == StoreLastError(<<n, "catch", 0>>)
           e == Label(End(n))
           d1 == BlockCode(p, n, 1)
           d2 == BlockCode(p, n, 2)
           head == << x >>
           mid == << y1, y2, y3 >>
           tail == << e >>
<1>2. n \in Nat
  BY TreeFacts
<1>3. x \in Instrs /\ y1 \in Instrs /\ y2 \in Instrs /\ y3 \in Instrs /\ e \in Instrs
  <2>1. <<n, "catch", 0>> \in SiteNames
    BY <1>2 DEF SiteNames
  <2> QED BY <1>2, <2>1, InstrTypes, LabelsOf
<1>4. Code(p, n) = head \o d1 \o mid \o d2 \o tail
  BY <1>1 DEF Lower, LowerTry
<1> HIDE DEF x, y1, y2, y3, e, d1, d2
<1>5. /\ head \in Seq(Instrs) /\ mid \in Seq(Instrs) /\ tail \in Seq(Instrs)
      /\ d1 \in Seq(Instrs) /\ d2 \in Seq(Instrs)
      /\ Len(head) = 1 /\ Len(mid) = 3 /\ Len(tail) = 1 /\ Len(d1) \in Nat /\ Len(d2) \in Nat
  BY <1>1, <1>3 DEF d1, d2
<1>6. DOMAIN mid = 1 .. 3 /\ mid[1] = y1 /\ mid[2] = y2 /\ mid[3] = y3
  OBVIOUS
<1> HIDE DEF head, mid, tail
<1> DEFINE front == head \o d1 \o mid
<1>7. front \in Seq(Instrs)
  <2>1. head \o d1 \in Seq(Instrs)
    BY <1>5, ConcatIs
  <2> QED BY <1>5, <2>1, ConcatIs
<1>8. Code(p, n) = front \o d2 \o tail
  BY <1>4
<1> HIDE DEF front
<1>9. /\ Holds(c, b, front) /\ Holds(c, b + Len(front), d2) /\ Holds(c, b + Len(front) + Len(d2), tail)
      /\ Len(front \o d2 \o tail) = Len(front) + Len(d2) + Len(tail)
      /\ b \in Nat \ {0}
  <2>1. d2 \in Seq(Instrs) /\ tail \in Seq(Instrs) /\ Holds(c, b, front \o d2 \o tail)
    BY <1>5, <1>8
  <2> QED BY <1>7, <2>1, HoldsThree
<1>10. /\ Holds(c, b, head) /\ Holds(c, b + Len(head), d1) /\ Holds(c, b + Len(head) + Len(d1), mid)
       /\ Len(front) = Len(head) + Len(d1) + Len(mid)
  <2>1. Holds(c, b, head \o d1 \o mid) /\ head \in Seq(Instrs) /\ d1 \in Seq(Instrs) /\ mid \in Seq(Instrs)
    BY <1>5, <1>9 DEF front
  <2>2. /\ Holds(c, b, head) /\ Holds(c, b + Len(head), d1) /\ Holds(c, b + Len(head) + Len(d1), mid)
        /\ Len(head \o d1 \o mid) = Len(head) + Len(d1) + Len(mid)
    BY <2>1, HoldsThree
  <2> QED BY <2>2 DEF front
<1> DEFINE o1 == b + 1 + Len(d1)
           o2 == o1 + 3 + Len(d2)
           k == [in |-> [s \in {1, 2} |-> IF s = 1 THEN b + 1 ELSE o1 + 3],
                 out |-> [s \in {1, 2} |-> IF s = 1 THEN o1 ELSE o2]]
<1>11. k.in[1] = b + 1 /\ k.out[1] = o1 /\ k.in[2] = o1 + 3 /\ k.out[2] = o2
  OBVIOUS
<1> HIDE DEF k
<1>12. /\ b + Len(head) = b + 1 /\ b + Len(head) + Len(d1) = o1
       /\ b + Len(front) = o1 + 3 /\ b + Len(front) + Len(d2) = o2
       /\ b + Len(Code(p, n)) = o2 + 1
       /\ b <= b + 1 /\ b <= o1 + 3 /\ o1 \in Nat
  <2>1. Len(front) = Len(d1) + 4
    BY <1>5, <1>10
  <2>2. Len(Code(p, n)) = Len(d1) + 4 + Len(d2) + 1
    <3>1. Len(Code(p, n)) = Len(front) + Len(d2) + Len(tail)
      BY <1>8, <1>9
    <3> QED BY <1>5, <2>1, <3>1
  <2> QED BY <1>5, <1>9, <2>1, <2>2
<1> HIDE DEF o1, o2
<1>13. Has(c, b, x) /\ Has(c, o1, y1) /\ Has(c, o1 + 1, y2) /\ Has(c, o1 + 2, y3) /\ Has(c, o2, e)
  <2>1. Holds(c, o1, mid) /\ Holds(c, o2, tail) /\ Holds(c, b, head)
    BY <1>9, <1>10, <1>12
  <2>2. Has(c, b, x) /\ Has(c, o2, e)
    BY <2>1, HoldsOne DEF head, tail
  <2>3. \A i \in 1 .. 3 : Has(c, o1 + i - 1, mid[i])
    BY <1>6, <2>1 DEF Holds, Has
  <2>4. o1 + 1 - 1 = o1 /\ o1 + 2 - 1 = o1 + 1 /\ o1 + 3 - 1 = o1 + 2
    BY <1>12
  <2>5. 1 \in 1 .. 3 /\ 2 \in 1 .. 3 /\ 3 \in 1 .. 3
    OBVIOUS
  <2> QED BY <1>6, <2>2, <2>3, <2>4, <2>5
<1>14. Framed(p, c, n, 1, b, k)
  BY <1>10, <1>11, <1>12 DEF Framed, d1, o1
<1>15. Framed(p, c, n, 2, b, k)
  BY <1>9, <1>11, <1>12 DEF Framed, d2, o2
<1>16. TryFrame(p, c, n, b, k, b + Len(Code(p, n)))
  BY <1>11, <1>12, <1>13, <1>14, <1>15 DEF TryFrame, x, y1, y2, y3, e
<1> QED BY <1>16

\* The code of a condition is code.
LEMMA ConditionIsCode ==
  ASSUME NEW p, IsTree(p), NEW n \in Stmts(p), NEW i \in Nat
  PROVE  Condition(p, n, i) \in Seq(Instrs)
<1>1. n \in Nat /\ p.test[n] \in Tests
  BY TreeFacts
<1>2. Test(<<n, "case", i>>, "cond") \in Instrs
  <2>1. <<n, "case", i>> \in SiteNames /\ "cond" \in Temps
    BY <1>1 DEF SiteNames, Temps
  <2> QED BY <2>1, InstrTypes
<1>3. << Test(<<n, "case", i>>, "cond") >> \in Seq(Instrs)
  BY <1>2
<1>4. LowerCondition(p, n, i) \in Seq(Instrs)
  BY <1>1, ConditionIsPlain
<1> QED BY <1>3, <1>4 DEF Condition

\* The branches make the frame of the choice they are of.
LEMMA ArmedFrames ==
  ASSUME NEW p, IsTree(p), NEW n \in Stmts(p), NEW c, NEW b, NEW a, NEW k, NEW body, NEW cond,
         b \in Nat, a \in Nat, b <= a,
         Armed(c, cond, n, a, body, k), NEW stop, stop = k.out[Arms + 1] + 1,
         \A i \in 1 .. Arms : cond[i] = Condition(p, n, i),
         \A s \in 1 .. (Arms + 1) : body[s] = BlockCode(p, n, s),
         p.kind[n] = "if" => a = b,
         p.kind[n] = "switch" => Has(c, b, Eval(<<n, "subject", 0>>)) /\ a = b + 1
  PROVE  ChoiceFrame(p, c, n, b, k, stop)
<1>1. Arms \in Nat /\ Arms + 1 \in 1 .. (Arms + 1) /\ \A i \in 1 .. Arms : i \in 1 .. (Arms + 1)
  BY ArmsAssumption
<1>2. k.test[1] = a
  BY DEF Armed
<1>3. ASSUME NEW i \in 1 .. Arms
      PROVE  /\ Arm(c, Condition(p, n, i), n, i, BlockCode(p, n, i), k.test[i], k.in[i], k.out[i])
             /\ k.out[i] + 2 = IF i = Arms THEN k.in[Arms + 1] ELSE k.test[i + 1]
             /\ b <= k.in[i] /\ k.out[i] < k.in[Arms + 1]
  <2>1. cond[i] = Condition(p, n, i) /\ body[i] = BlockCode(p, n, i)
    BY <1>1
  <2>2. /\ Arm(c, cond[i], n, i, body[i], k.test[i], k.in[i], k.out[i])
        /\ k.out[i] + 2 = IF i = Arms THEN k.in[Arms + 1] ELSE k.test[i + 1]
        /\ a <= k.in[i] /\ k.out[i] < k.in[Arms + 1]
    BY DEF Armed
  <2>3. k.in[i] \in Nat
    BY <2>2 DEF Arm, Holds
  <2>4. b <= k.in[i]
    BY <2>2, <2>3
  <2> QED BY <2>1, <2>2, <2>4
<1>4. /\ a <= k.in[Arms + 1] /\ Holds(c, k.in[Arms + 1], body[Arms + 1])
      /\ k.out[Arms + 1] = k.in[Arms + 1] + Len(body[Arms + 1])
      /\ Has(c, k.out[Arms + 1], Label(End(n)))
  BY DEF Armed
<1>5. k.in[Arms + 1] \in Nat
  BY <1>4 DEF Holds
<1>6. b <= k.in[Arms + 1]
  BY <1>4, <1>5
<1>7. Framed(p, c, n, Arms + 1, b, k)
  BY <1>1, <1>4, <1>6 DEF Framed
<1> QED BY <1>2, <1>3, <1>4, <1>7 DEF ChoiceFrame

\* The code of an if or of a switch fits its frame.
LEMMA ChoiceHolds ==
  ASSUME NEW p, IsTree(p), NEW n \in Stmts(p), p.kind[n] \in Branchings,
         NEW c, NEW b, Holds(c, b, Code(p, n))
  PROVE  \E k : ChoiceFrame(p, c, n, b, k, b + Len(Code(p, n)))
<1>1. PICK body : /\ Code(p, n) = Lower(p, n, body)
                  /\ \A s \in 1 .. (Arms + 1) : body[s] = BlockCode(p, n, s) /\ body[s] \in Seq(Instrs)
  <2>1. Slots(p.kind[n]) = 1 .. (Arms + 1)
    <3>1. p.kind[n] \in Kinds
      BY TreeFacts
    <3> QED BY <3>1, SlotsOf
  <2> QED BY <2>1, CodeIs
<1>2. n \in Nat /\ Arms \in Nat
  BY TreeFacts, ArmsAssumption
<1> DEFINE cond == [i \in 1 .. Arms |-> Condition(p, n, i)]
           arms == ArmsCode(n, cond, body)
<1>3. \A i \in 1 .. Arms : cond[i] \in Seq(Instrs) /\ cond[i] = Condition(p, n, i)
  BY <1>2, ConditionIsCode
<1>4. b \in Nat \ {0}
  BY DEF Holds
<1>5. CASE p.kind[n] = "if"
  <2>1. Code(p, n) = arms
    <3>1. \A i \in 1 .. Arms : cond[i] = LowerCondition(p, n, i)
      BY <1>5 DEF Condition
    <3>2. [i \in 1 .. Arms |-> LowerCondition(p, n, i) \o << JumpIfFalse(Miss(n, i)) >> \o body[i]
                                 \o << Jump(End(n)), Label(Miss(n, i)) >>]
            = [i \in 1 .. Arms |-> ArmCode(cond[i], n, i, body[i])]
      BY <3>1 DEF ArmCode
    <3>3. Code(p, n) = LowerIf(p, n, body)
      BY <1>1, <1>5 DEF Lower
    <3> QED BY <3>2, <3>3 DEF LowerIf, ArmsCode
  <2> HIDE DEF cond
  <2>2. PICK k : Armed(c, cond, n, b, body, k) /\ b + Len(arms) = k.out[Arms + 1] + 1
    BY <1>1, <1>2, <1>3, <2>1, ArmsHold
  <2> DEFINE stop == b + Len(Code(p, n))
  <2>3. stop = k.out[Arms + 1] + 1 /\ b \in Nat /\ b <= b
    BY <1>4, <2>1, <2>2
  <2> HIDE DEF stop, arms
  <2>4. ChoiceFrame(p, c, n, b, k, stop)
    BY <1>1, <1>3, <1>5, <2>2, <2>3, ArmedFrames
  <2> QED BY <2>4 DEF stop
<1>6. CASE p.kind[n] = "switch"
  <2> DEFINE first == << Eval(<<n, "subject", 0>>) >>
             row == FlattenSeq([i \in 1 .. Arms |-> ArmCode(cond[i], n, i, body[i])])
             last == body[Arms + 1]
             end == << Label(End(n)) >>
  <2>1. Code(p, n) = first \o row \o last \o end
    <3>1. \A i \in 1 .. Arms : cond[i] = << Test(<<n, "case", i>>, "cond") >>
      BY <1>6 DEF Condition
    <3>2. ASSUME NEW i \in 1 .. Arms
          PROVE  << Test(<<n, "case", i>>, "cond"), JumpIfFalse(Miss(n, i)) >> \o body[i]
                     \o << Jump(End(n)), Label(Miss(n, i)) >>
                   = ArmCode(cond[i], n, i, body[i])
      <4> DEFINE x == Test(<<n, "case", i>>, "cond")
                 y == JumpIfFalse(Miss(n, i))
      <4>1. x \in Instrs /\ y \in Instrs
        <5>1. i \in Nat /\ <<n, "case", i>> \in SiteNames /\ "cond" \in Temps
          BY <1>2 DEF SiteNames, Temps
        <5> QED BY <1>2, <5>1, InstrTypes, LabelsOf
      <4>2. cond[i] = << x >>
        BY <3>1
      <4> HIDE DEF x, y
      <4>3. << x >> \o << y >> = << x, y >>
        BY <4>1, TwoAreAPair
      <4> QED BY <4>2, <4>3 DEF ArmCode, x, y
    <3>3. [i \in 1 .. Arms |-> << Test(<<n, "case", i>>, "cond"), JumpIfFalse(Miss(n, i)) >> \o body[i]
                                 \o << Jump(End(n)), Label(Miss(n, i)) >>]
            = [i \in 1 .. Arms |-> ArmCode(cond[i], n, i, body[i])]
      BY <3>2
    <3>4. Code(p, n) = LowerSwitch(p, n, body)
      BY <1>1, <1>6 DEF Lower
    <3> HIDE DEF cond
    <3> QED BY <3>3, <3>4 DEF LowerSwitch
  <2>2. first \in Seq(Instrs) /\ Len(first) = 1 /\ last \in Seq(Instrs) /\ end \in Seq(Instrs)
    <3>1. <<n, "subject", 0>> \in SiteNames /\ Arms + 1 \in 1 .. (Arms + 1)
      BY <1>2 DEF SiteNames
    <3>2. Eval(<<n, "subject", 0>>) \in Instrs /\ Label(End(n)) \in Instrs
      BY <1>2, <3>1, InstrTypes, LabelsOf
    <3> QED BY <1>1, <3>1, <3>2
  <2>3. row \in Seq(Instrs)
    <3> DEFINE seqs == [i \in 1 .. Arms |-> ArmCode(cond[i], n, i, body[i])]
    <3>1. \A i \in 1 .. Arms : ArmCode(cond[i], n, i, body[i]) \in Seq(Instrs)
      <4> TAKE i \in 1 .. Arms
      <4>1. i \in Nat /\ i \in 1 .. (Arms + 1)
        BY <1>2
      <4> HIDE DEF cond
      <4> QED BY <1>1, <1>2, <1>3, <4>1, ArmIsCode
    <3>2. seqs \in [1 .. Arms -> Seq(Instrs)]
      <4> HIDE DEF cond
      <4> QED BY <3>1
    <3> HIDE DEF seqs
    <3>3. seqs \in Seq(Seq(Instrs)) /\ Len(seqs) = Arms
      BY <1>2, <3>2
    <3>4. Arms # 0
      BY ArmsAssumption
    <3>5. FlattenSeq(seqs) \in Seq(Instrs)
      BY <1>2, <3>3, <3>4, FlattenIsCode
    <3> QED BY <3>5 DEF seqs
  <2>4. arms = row \o last \o end
    BY DEF ArmsCode
  <2> HIDE DEF cond, first, row, last, end, arms
  <2>5. row \o last \in Seq(Instrs)
    BY <2>2, <2>3, ConcatIs
  <2>6. arms \in Seq(Instrs)
    BY <2>2, <2>4, <2>5, ConcatIs
  <2>7. Code(p, n) = first \o arms
    <3>1. (first \o row) \o last = first \o (row \o last)
      BY <2>2, <2>3, ConcatAssociative
    <3> DEFINE most == row \o last
    <3>2. (first \o most) \o end = first \o (most \o end)
      <4>1. most \in Seq(Instrs)
        BY <2>5
      <4> HIDE DEF most
      <4> QED BY <2>2, <4>1, ConcatAssociative
    <3> QED BY <2>1, <2>4, <3>1, <3>2
  <2>8. Holds(c, b, first) /\ Holds(c, b + Len(first), arms) /\ Len(Code(p, n)) = Len(first) + Len(arms)
    <3>1. first \in Seq(Instrs) /\ Holds(c, b, first \o arms)
      BY <2>2, <2>7
    <3> QED BY <2>6, <2>7, <3>1, HoldsJoin
  <2>9. Holds(c, b + 1, arms) /\ Has(c, b, Eval(<<n, "subject", 0>>))
    <3>1. Has(c, b, Eval(<<n, "subject", 0>>))
      BY <2>8, HoldsOne DEF first
    <3> QED BY <2>2, <2>8, <3>1
  <2>10. PICK k : Armed(c, cond, n, b + 1, body, k) /\ b + 1 + Len(arms) = k.out[Arms + 1] + 1
    BY <1>1, <1>2, <1>3, <2>9, ArmsHold DEF arms
  <2> DEFINE stop == b + Len(Code(p, n))
             a == b + 1
  <2>11. /\ stop = k.out[Arms + 1] + 1 /\ b \in Nat /\ a \in Nat /\ b <= a
         /\ Armed(c, cond, n, a, body, k) /\ a = b + 1
    <3>1. b + Len(Code(p, n)) = b + 1 + Len(arms)
      BY <1>4, <2>2, <2>6, <2>8
    <3> QED BY <1>4, <2>10, <3>1
  <2> HIDE DEF stop, a
  <2>12. ChoiceFrame(p, c, n, b, k, stop)
    BY <1>1, <1>3, <1>6, <2>9, <2>11, ArmedFrames
  <2> QED BY <2>12 DEF stop
<1> QED BY <1>5, <1>6 DEF Branchings

\* Every statement's code has the frame of its kind.
LEMMA FrameHolds ==
  ASSUME NEW p, IsTree(p), NEW n \in Stmts(p), NEW c, NEW b, Holds(c, b, Code(p, n))
  PROVE  \E k : Frame(p, c, n, b, k)
<1> DEFINE stop == b + Len(Code(p, n))
<1>1. p.kind[n] \in Kinds
  BY TreeFacts
<1>2. CASE p.kind[n] \in Branchings
  <2>1. PICK k : ChoiceFrame(p, c, n, b, k, stop)
    BY <1>2, ChoiceHolds
  <2>2. p.kind[n] \notin {"act", "return", "break", "continue", "try", "while", "for"}
    BY <1>2 DEF Branchings
  <2>3. Frame(p, c, n, b, k)
    BY <2>1, <2>2 DEF Frame
  <2> QED BY <2>3
<1>3. CASE p.kind[n] = "try"
  <2>1. PICK k : TryFrame(p, c, n, b, k, stop)
    BY <1>3, TryHolds
  <2>2. p.kind[n] \notin Branchings
    BY <1>3 DEF Branchings
  <2>3. Frame(p, c, n, b, k)
    BY <1>3, <2>1, <2>2 DEF Frame
  <2> QED BY <2>3
<1>4. CASE p.kind[n] = "while"
  <2>1. PICK k : WhileFrame(p, c, n, b, k, stop)
    BY <1>4, WhileHolds
  <2>2. p.kind[n] \notin Branchings
    BY <1>4 DEF Branchings
  <2>3. Frame(p, c, n, b, k)
    BY <1>4, <2>1, <2>2 DEF Frame
  <2> QED BY <2>3
<1>5. CASE p.kind[n] = "for"
  <2>1. PICK k : ForFrame(p, c, n, b, k, stop)
    BY <1>5, ForHolds
  <2>2. p.kind[n] \notin Branchings
    BY <1>5 DEF Branchings
  <2>3. Frame(p, c, n, b, k)
    BY <1>5, <2>1, <2>2 DEF Frame
  <2> QED BY <2>3
<1>6. CASE p.kind[n] \in Controls \cup {"act"}
  <2>0. PICK body : Code(p, n) = Lower(p, n, body)
    BY CodeIs
  <2>1. p.kind[n] \notin Branchings /\ p.kind[n] \notin {"try", "while", "for"}
    BY <1>6 DEF Branchings, Controls
  <2>2. p.kind[n] = "act" => Has(c, b, Eval(<<n, "act", 0>>)) /\ stop = b + 1
    <3> SUFFICES ASSUME p.kind[n] = "act" PROVE Has(c, b, Eval(<<n, "act", 0>>)) /\ stop = b + 1
      OBVIOUS
    <3> DEFINE x == Eval(<<n, "act", 0>>)
    <3>1. Code(p, n) = << x >>
      BY <2>0 DEF Lower
    <3> HIDE DEF x
    <3>2. Has(c, b, x)
      BY <3>1, HoldsOne
    <3>3. stop = b + 1
      BY <3>1
    <3> QED BY <3>2, <3>3 DEF x
  <2>3. p.kind[n] = "return" => Holds(c, b, EmitReturnFromOutputs(p))
    <3>1. p.kind[n] = "return" => Code(p, n) = EmitReturnFromOutputs(p)
      BY <2>0 DEF Lower
    <3> QED BY <3>1
  <2>4. p.kind[n] = "break" /\ LoopOf(p, n) # 0 => Has(c, b, Jump(End(LoopOf(p, n))))
    <3> SUFFICES ASSUME p.kind[n] = "break", LoopOf(p, n) # 0
                 PROVE  Has(c, b, Jump(End(LoopOf(p, n))))
      OBVIOUS
    <3> DEFINE x == Jump(End(LoopOf(p, n)))
    <3>1. Code(p, n) = << x >>
      BY <2>0 DEF Lower, LowerLoopControl
    <3> HIDE DEF x
    <3>2. Has(c, b, x)
      BY <3>1, HoldsOne
    <3> QED BY <3>2 DEF x
  <2>5. p.kind[n] = "continue" /\ LoopOf(p, n) # 0 => Has(c, b, Jump(HeadLabel(LoopOf(p, n))))
    <3> SUFFICES ASSUME p.kind[n] = "continue", LoopOf(p, n) # 0
                 PROVE  Has(c, b, Jump(HeadLabel(LoopOf(p, n))))
      OBVIOUS
    <3> DEFINE x == Jump(HeadLabel(LoopOf(p, n)))
    <3>1. Code(p, n) = << x >>
      BY <2>0 DEF Lower, LowerLoopControl
    <3> HIDE DEF x
    <3>2. Has(c, b, x)
      BY <3>1, HoldsOne
    <3> QED BY <3>2 DEF x
  <2>6. Frame(p, c, n, b, 0)
    BY <2>1, <2>2, <2>3, <2>4, <2>5 DEF Frame
  <2> QED BY <2>6
<1> QED BY <1>1, <1>2, <1>3, <1>4, <1>5, <1>6 DEF Kinds, Loops

\* Every block of a statement lies between the statement's start and its end.
LEMMA FrameBlocks ==
  ASSUME NEW p, IsTree(p), NEW n \in Stmts(p), NEW c, NEW b, NEW k, Frame(p, c, n, b, k),
         NEW s \in Slots(p.kind[n])
  PROVE  /\ Framed(p, c, n, s, b, k)
         /\ k.in[s] \in Nat /\ k.out[s] \in Nat /\ k.in[s] <= k.out[s]
         /\ k.out[s] < b + Len(Code(p, n))
<1> DEFINE stop == b + Len(Code(p, n))
<1>1. p.kind[n] \in Kinds
  BY TreeFacts
<1>2. ASSUME NEW r \in Slots(p.kind[n]), Framed(p, c, n, r, b, k)
      PROVE  k.in[r] \in Nat /\ k.out[r] \in Nat /\ k.in[r] <= k.out[r]
  <2>1. BlockCode(p, n, r) \in Seq(Instrs)
    BY CodeIs
  <2>2. Len(BlockCode(p, n, r)) \in Nat
    BY <2>1
  <2>3. k.in[r] \in Nat /\ k.out[r] = k.in[r] + Len(BlockCode(p, n, r))
    BY <1>2 DEF Framed, Holds
  <2> QED BY <2>2, <2>3
<1>3. CASE p.kind[n] \in Branchings
  <2>1. Slots(p.kind[n]) = 1 .. (Arms + 1) /\ Arms \in Nat
    BY <1>1, <1>3, SlotsOf, ArmsAssumption
  <2>2. ChoiceFrame(p, c, n, b, k, stop)
    BY <1>3 DEF Frame
  <2>3. Framed(p, c, n, Arms + 1, b, k) /\ stop = k.out[Arms + 1] + 1
    BY <2>2 DEF ChoiceFrame
  <2>4. Arms + 1 \in Slots(p.kind[n])
    BY <2>1
  <2>5. k.in[Arms + 1] \in Nat /\ k.out[Arms + 1] \in Nat /\ k.in[Arms + 1] <= k.out[Arms + 1]
    BY <1>2, <2>3, <2>4
  <2>6. CASE s = Arms + 1
    BY <2>3, <2>5, <2>6
  <2>7. CASE s # Arms + 1
    <3>1. s \in 1 .. Arms
      BY <2>1, <2>7
    <3>2. /\ Arm(c, Condition(p, n, s), n, s, BlockCode(p, n, s), k.test[s], k.in[s], k.out[s])
          /\ b <= k.in[s] /\ k.out[s] < k.in[Arms + 1]
      BY <2>2, <3>1 DEF ChoiceFrame
    <3>3. Framed(p, c, n, s, b, k)
      BY <3>2 DEF Framed, Arm
    <3>4. k.in[s] \in Nat /\ k.out[s] \in Nat /\ k.in[s] <= k.out[s]
      BY <1>2, <3>3
    <3>5. k.out[s] < stop
      BY <2>3, <2>5, <3>2, <3>4
    <3> QED BY <3>3, <3>4, <3>5
  <2> QED BY <2>6, <2>7
<1>4. CASE p.kind[n] = "try"
  <2>1. Slots(p.kind[n]) = 1 .. 2
    BY <1>1, <1>4, SlotsOf
  <2>2. TryFrame(p, c, n, b, k, stop)
    BY <1>4 DEF Frame
  <2>3. /\ Framed(p, c, n, 1, b, k) /\ Framed(p, c, n, 2, b, k) /\ stop = k.out[2] + 1
        /\ k.in[2] = k.out[1] + 3
    BY <2>2 DEF TryFrame
  <2>4. /\ k.in[1] \in Nat /\ k.out[1] \in Nat /\ k.in[1] <= k.out[1]
        /\ k.in[2] \in Nat /\ k.out[2] \in Nat /\ k.in[2] <= k.out[2]
    BY <1>2, <2>1, <2>3
  <2>5. k.out[1] < stop /\ k.out[2] < stop
    BY <2>3, <2>4
  <2>6. s = 1 \/ s = 2
    BY <2>1
  <2> QED BY <2>3, <2>4, <2>5, <2>6
<1>5. CASE p.kind[n] \in Loops
  <2>1. s = 1
    BY <1>1, <1>5, SlotsOf
  <2>2. Framed(p, c, n, 1, b, k) /\ stop = k.out[1] + 2
    <3>1. CASE p.kind[n] = "while"
      BY <3>1 DEF Frame, WhileFrame
    <3>2. CASE p.kind[n] = "for"
      BY <3>2 DEF Frame, ForFrame
    <3> QED BY <1>5, <3>1, <3>2 DEF Loops
  <2>3. k.in[1] \in Nat /\ k.out[1] \in Nat /\ k.in[1] <= k.out[1]
    BY <1>2, <2>1, <2>2
  <2>4. k.out[1] < stop
    BY <2>2, <2>3
  <2> QED BY <2>1, <2>2, <2>3, <2>4
<1> QED BY <1>1, <1>3, <1>4, <1>5, SlotsOf

\* A row is where the numbers of its statements say.
LEMMA RowedSame ==
  ASSUME NEW p, IsTree(p), NEW c, NEW n, NEW s, NEW b, NEW e, NEW at, NEW to,
         \A m \in Members(p, n, s) : at[m] = to[m], Rowed(p, c, n, s, b, e, at)
  PROVE  Rowed(p, c, n, s, b, e, to)
<1> DEFINE M == Members(p, n, s)
           next(m) == {x \in M : x > m}
<1>1. M \subseteq Nat
  BY TreeFacts DEF Members
<1>2. ASSUME NEW m \in M, next(m) # {} PROVE Min(next(m)) \in M
  <2>1. next(m) \subseteq Nat
    BY <1>1
  <2> QED BY <1>2, <2>1, MinIsLeast
<1>3. M # {} => Min(M) \in M
  BY <1>1, MinIsLeast
<1>4. /\ b \in Nat \ {0} /\ e \in Nat /\ b <= e
      /\ b = IF M = {} THEN e ELSE at[Min(M)]
      /\ \A m \in M : /\ Holds(c, at[m], Code(p, m))
                      /\ b <= at[m] /\ at[m] + Len(Code(p, m)) <= e
                      /\ at[m] + Len(Code(p, m)) = IF next(m) = {} THEN e ELSE at[Min(next(m))]
  BY DEF Rowed
<1>5. \A m \in M : at[m] = to[m]
  OBVIOUS
<1> HIDE DEF M, next
<1>6. /\ b = IF M = {} THEN e ELSE to[Min(M)]
      /\ \A m \in M : /\ Holds(c, to[m], Code(p, m))
                      /\ b <= to[m] /\ to[m] + Len(Code(p, m)) <= e
                      /\ to[m] + Len(Code(p, m)) = IF next(m) = {} THEN e ELSE to[Min(next(m))]
  BY <1>2, <1>3, <1>4, <1>5
<1> QED BY <1>4, <1>6 DEF Rowed, M, next

\* at and of place the code of statement n and of its blocks, the tree's at 0.
Rooted(p, c, at, of) ==
  /\ Rowed(p, c, 0, 1, of[0].in[1], of[0].out[1], at)
  /\ of[0].in[1] = 1
  /\ Holds(c, of[0].out[1], EmitReturnFromOutputs(p))

Placed(p, c, at, of, n) ==
  /\ Holds(c, at[n], Code(p, n))
  /\ Frame(p, c, n, at[n], of[n])
  /\ \A s \in Slots(p.kind[n]) : Rowed(p, c, n, s, of[n].in[s], of[n].out[s], at)

\* The statements of the unit itself have their places, and if the statements
\* before m have theirs, m has its own.
LEMMA RootExists ==
  ASSUME NEW p, IsTree(p)
  PROVE  \E at, of : Rooted(p, Emit(p), at, of)
<1> DEFINE a == BlockCode(p, 0, 1)
           b == EmitReturnFromOutputs(p)
           c == Emit(p)
<1>1. a \in Seq(Instrs)
  <2>1. \A m \in Members(p, 0, 1) : Piece(FALSE, LowerStatement(p)[m], {}, {}, {}, {})
                                      /\ Made(p, m, LowerStatement(p)[m])
    <3> SUFFICES ASSUME NEW m \in Members(p, 0, 1)
                 PROVE  Piece(FALSE, LowerStatement(p)[m], {}, {}, {}, {})
                          /\ Made(p, m, LowerStatement(p)[m])
      OBVIOUS
    <3>1. m \in Stmts(p) /\ p.parent[m] = 0
      BY DEF Members
    <3>2. LoopOf(p, m) = 0
      BY <3>1, LoopOfTop
    <3>3. Ahead(p, m) = {} /\ Behind(FALSE, p, m) = {}
      BY <3>2 DEF Ahead, Behind
    <3>4. Fine(FALSE, p, m)
      BY <3>1, AllFine
    <3> QED BY <3>3, <3>4 DEF Fine
  <2>2. 0 \in Nat /\ \A l \in {} \cup {} : l[1] \in Nat /\ l[1] <= 0
    OBVIOUS
  <2> DEFINE lower == LowerStatement(p)
  <2> HIDE DEF lower
  <2>3. Piece(FALSE, LowerBlock(p, 0, 1, lower), {}, {}, {}, {})
    BY <2>1, <2>2, BlockPiece DEF lower
  <2> QED BY <2>3, PieceIsCode DEF BlockCode, lower
<1>2. b \in Seq(Instrs)
  BY OutputsArePlain
<1>3. c = a \o b
  BY DEF Emit, BlockCode
<1> HIDE DEF a, b, c
<1>4. c \in Seq(Instrs)
  BY <1>1, <1>2, <1>3, ConcatIs
<1>5. Holds(c, 1, c)
  <2>1. \A i \in DOMAIN c : i \in Nat /\ 1 + i - 1 = i
    BY <1>4
  <2> QED BY <2>1 DEF Holds
<1>6. Holds(c, 1, a) /\ Holds(c, 1 + Len(a), b)
  <2>1. Holds(c, 1, a \o b)
    BY <1>3, <1>5
  <2> QED BY <1>1, <1>2, <2>1, HoldsJoin
<1>7. PICK at : Rowed(p, c, 0, 1, 1, 1 + Len(a), at)
  BY <1>6, BlockRows DEF a
<1> DEFINE of == [n \in {0} |-> [in |-> [s \in {1} |-> 1], out |-> [s \in {1} |-> 1 + Len(a)]]]
<1>8. of[0].in[1] = 1 /\ of[0].out[1] = 1 + Len(a)
  OBVIOUS
<1> HIDE DEF of
<1>9. Rooted(p, c, at, of)
  BY <1>6, <1>7, <1>8 DEF Rooted, b
<1> QED BY <1>9 DEF c

LEMMA PlaceNext ==
  ASSUME NEW p, IsTree(p), NEW c, NEW at, NEW of, Rooted(p, c, at, of),
         NEW m \in Stmts(p), \A n \in Stmts(p) : n < m => Placed(p, c, at, of, n)
  PROVE  \E to, by : /\ Rooted(p, c, to, by)
                     /\ \A n \in Stmts(p) : n <= m => Placed(p, c, to, by, n)
<1> DEFINE q == p.parent[m]
           r == p.slot[m]
<1>0. /\ q \in Nat /\ q < m /\ m \in Nat /\ m # 0
      /\ q # 0 => q \in Stmts(p) /\ r \in Slots(p.kind[q])
      /\ q = 0 => r = 1
      /\ \A n \in Stmts(p) : n \in Nat /\ p.parent[n] \in Nat /\ p.parent[n] < n
  BY TreeFacts
<1>1. Holds(c, at[m], Code(p, m))
  <2>1. m \in Members(p, q, r)
    BY DEF Members
  <2>2. Rowed(p, c, q, r, of[q].in[r], of[q].out[r], at)
    <3>1. CASE q = 0
      BY <1>0, <3>1 DEF Rooted
    <3>2. CASE q # 0
      BY <1>0, <3>2 DEF Placed
    <3> QED BY <3>1, <3>2
  <2> QED BY <2>1, <2>2 DEF Rowed
<1>2. PICK f : Frame(p, c, m, at[m], f)
  BY <1>1, FrameHolds
<1> DEFINE Row(s, row) == Rowed(p, c, m, s, f.in[s], f.out[s], row)
           pick(s) == CHOOSE row : Row(s, row)
<1>3. ASSUME NEW s \in Slots(p.kind[m]) PROVE Row(s, pick(s))
  <2>1. Framed(p, c, m, s, at[m], f)
    BY <1>2, FrameBlocks
  <2>2. Holds(c, f.in[s], BlockCode(p, m, s)) /\ f.out[s] = f.in[s] + Len(BlockCode(p, m, s))
    BY <2>1 DEF Framed
  <2>3. \E row : Rowed(p, c, m, s, f.in[s], f.in[s] + Len(BlockCode(p, m, s)), row)
    BY <2>2, BlockRows
  <2>4. \E row : Row(s, row)
    BY <2>2, <2>3
  <2> HIDE DEF Row
  <2> QED BY <2>4
<1> DEFINE to == [x \in Stmts(p) |-> IF p.parent[x] = m THEN pick(p.slot[x])[x] ELSE at[x]]
           by == [x \in 0 .. Len(p.kind) |-> IF x = m THEN f ELSE of[x]]
<1>4. /\ \A n \in Stmts(p) : n \in 0 .. Len(p.kind) /\ by[n] = IF n = m THEN f ELSE of[n]
      /\ by[0] = of[0]
  BY <1>0, TreeFacts
<1>5. ASSUME NEW n, n # m, NEW s, NEW x \in Members(p, n, s) PROVE at[x] = to[x]
  BY <1>5 DEF Members
<1>6. ASSUME NEW s, NEW x \in Members(p, m, s) PROVE pick(s)[x] = to[x]
  <2>1. x \in Stmts(p) /\ p.parent[x] = m /\ p.slot[x] = s
    BY DEF Members
  <2> HIDE DEF pick
  <2>2. to[x] = pick(p.slot[x])[x]
    BY <2>1
  <2> QED BY <2>1, <2>2
<1>7. \A x \in Stmts(p) : p.parent[x] # m => to[x] = at[x]
  OBVIOUS
<1> HIDE DEF to, by, pick
<1>8. Rooted(p, c, to, by)
  <2>1. Rowed(p, c, 0, 1, of[0].in[1], of[0].out[1], at)
    BY DEF Rooted
  <2>2. \A x \in Members(p, 0, 1) : at[x] = to[x]
    BY <1>0, <1>5
  <2>3. Rowed(p, c, 0, 1, of[0].in[1], of[0].out[1], to)
    BY <2>1, <2>2, RowedSame
  <2> QED BY <1>4, <2>3 DEF Rooted
<1>9. ASSUME NEW n \in Stmts(p), n <= m PROVE Placed(p, c, to, by, n)
  <2>1. to[n] = at[n]
    <3>1. p.parent[n] # m
      BY <1>0, <1>9
    <3> QED BY <1>7, <3>1
  <2>2. CASE n = m
    <3>1. by[n] = f
      BY <1>4, <2>2
    <3>2. \A s \in Slots(p.kind[n]) : Rowed(p, c, n, s, f.in[s], f.out[s], to)
      <4> TAKE s \in Slots(p.kind[n])
      <4>1. Rowed(p, c, m, s, f.in[s], f.out[s], pick(s))
        BY <1>3, <2>2
      <4>2. \A x \in Members(p, m, s) : pick(s)[x] = to[x]
        BY <1>6
      <4> DEFINE row == pick(s)
      <4> HIDE DEF row
      <4>3. Rowed(p, c, m, s, f.in[s], f.out[s], to)
        BY <4>1, <4>2, RowedSame DEF row
      <4> QED BY <2>2, <4>3
    <3> QED BY <1>1, <1>2, <2>1, <2>2, <3>1, <3>2 DEF Placed
  <2>3. CASE n # m
    <3>1. n < m
      BY <1>0, <1>9, <2>3
    <3>2. Placed(p, c, at, of, n) /\ by[n] = of[n]
      BY <1>4, <2>3, <3>1
    <3>3. \A s \in Slots(p.kind[n]) : Rowed(p, c, n, s, of[n].in[s], of[n].out[s], to)
      <4> TAKE s \in Slots(p.kind[n])
      <4>1. Rowed(p, c, n, s, of[n].in[s], of[n].out[s], at)
        BY <3>2 DEF Placed
      <4>2. \A x \in Members(p, n, s) : at[x] = to[x]
        BY <1>5, <2>3
      <4> QED BY <4>1, <4>2, RowedSame
    <3> QED BY <2>1, <3>2, <3>3 DEF Placed
  <2> QED BY <2>2, <2>3
<1> QED BY <1>8, <1>9

LaidOut(p, c, at, of) ==
  Rooted(p, c, at, of) /\ \A n \in Stmts(p) : Placed(p, c, at, of, n)

\* The code of a tree can be divided among its statements.
LEMMA LayoutExists ==
  ASSUME NEW p, IsTree(p)
  PROVE  \E at, of : LaidOut(p, Emit(p), at, of)
<1> DEFINE N == Len(p.kind)
           c == Emit(p)
           P(k, at, of) == /\ Rooted(p, c, at, of)
                           /\ \A n \in Stmts(p) : n <= k => Placed(p, c, at, of, n)
           Bad == {k \in Nat : k \in 0 .. N /\ ~ \E at, of : P(k, at, of)}
<1>1. N \in Nat /\ Stmts(p) = 1 .. N
  BY TreeFacts
<1>2. Bad = {}
  <2> SUFFICES ASSUME Bad # {} PROVE FALSE
    OBVIOUS
  <2>1. PICK k \in Bad : \A h \in Bad : k <= h
    <3>1. Bad \in SUBSET Nat
      OBVIOUS
    <3> HIDE DEF Bad
    <3> QED BY <3>1, LeastElement
  <2>2. k \in 0 .. N /\ ~ \E at, of : P(k, at, of)
    BY <2>1
  <2>3. k # 0
    <3> SUFFICES ASSUME k = 0 PROVE FALSE
      OBVIOUS
    <3>1. PICK at, of : Rooted(p, c, at, of)
      BY RootExists
    <3>2. P(0, at, of)
      BY <1>1, <3>1
    <3> QED BY <2>2, <3>2
  <2>4. k - 1 \in 0 .. N /\ k - 1 \in Nat /\ ~ (k <= k - 1) /\ k \in Stmts(p)
    BY <1>1, <2>2, <2>3
  <2>5. PICK at, of : P(k - 1, at, of)
    BY <2>1, <2>4
  <2>6. \A n \in Stmts(p) : n < k => n <= k - 1
    BY <1>1, <2>2
  <2>7. Rooted(p, c, at, of) /\ \A n \in Stmts(p) : n < k => Placed(p, c, at, of, n)
    BY <2>5, <2>6
  <2> HIDE DEF Bad, c
  <2>8. \E to, by : P(k, to, by)
    BY <2>4, <2>7, PlaceNext
  <2> QED BY <2>2, <2>8
<1>3. PICK at, of : P(N, at, of)
  BY <1>1, <1>2
<1>4. \A n \in Stmts(p) : n <= N
  BY <1>1
<1> QED BY <1>3, <1>4 DEF LaidOut

\* Where the code of p, of statement n and of its blocks begins and ends.
Layout(p)       == CHOOSE l : LaidOut(p, Emit(p), l.at, l.of)
StartAt(p, n)   == Layout(p).at[n]
StopAt(p, n)    == StartAt(p, n) + Len(Code(p, n))
FrameOf(p, n)   == Layout(p).of[n]
TestAt(p, n, i) == FrameOf(p, n).test[i]
InAt(p, n, s)   == FrameOf(p, n).in[s]
OutAt(p, n, s)  == FrameOf(p, n).out[s]

\* The blocks of a tree.
IsBlock(p, n, s) ==
  \/ n = 0 /\ s = 1
  \/ n \in Stmts(p) /\ s \in Slots(p.kind[n])

\* The layout chosen is one.
LEMMA LayoutIs ==
  ASSUME NEW p, IsTree(p)
  PROVE  LaidOut(p, Emit(p), Layout(p).at, Layout(p).of)
<1>1. PICK at, of : LaidOut(p, Emit(p), at, of)
  BY LayoutExists
<1> DEFINE L == [at |-> at, of |-> of]
<1>2. L.at = at /\ L.of = of
  OBVIOUS
<1> HIDE DEF L
<1>3. LaidOut(p, Emit(p), L.at, L.of)
  BY <1>1, <1>2
<1> QED BY <1>3 DEF Layout

\* The frame of a statement, where the layout has it.
LEMMA FrameIs ==
  ASSUME NEW p, IsTree(p), NEW n \in Stmts(p)
  PROVE  Frame(p, Emit(p), n, StartAt(p, n), FrameOf(p, n))
  BY LayoutIs DEF LaidOut, Placed, StartAt, FrameOf

LEMMA RootIs ==
  ASSUME NEW p, IsTree(p)
  PROVE  InAt(p, 0, 1) = 1 /\ Holds(Emit(p), OutAt(p, 0, 1), EmitReturnFromOutputs(p))
  BY LayoutIs DEF LaidOut, Rooted, InAt, OutAt, FrameOf

\* A block of any statement lies where its frame says.
LEMMA RowIs ==
  ASSUME NEW p, IsTree(p), NEW n, NEW s, IsBlock(p, n, s)
  PROVE  Rowed(p, Emit(p), n, s, InAt(p, n, s), OutAt(p, n, s), Layout(p).at)
<1>1. n # 0 => n \in Stmts(p) /\ s \in Slots(p.kind[n])
  BY DEF IsBlock
<1>2. 0 \notin Stmts(p)
  BY TreeFacts
<1>3. n = 0 => s = 1
  BY <1>2 DEF IsBlock
<1>4. LaidOut(p, Emit(p), Layout(p).at, Layout(p).of)
  BY LayoutIs
<1>5. CASE n = 0
  BY <1>3, <1>4, <1>5 DEF LaidOut, Rooted, InAt, OutAt, FrameOf
<1>6. CASE n # 0
  BY <1>1, <1>4, <1>6 DEF LaidOut, Placed, InAt, OutAt, FrameOf
<1> QED BY <1>5, <1>6

\* The block a statement is in.
LEMMA ParentIsBlock ==
  ASSUME NEW p, IsTree(p), NEW n \in Stmts(p)
  PROVE  IsBlock(p, p.parent[n], p.slot[n]) /\ n \in Members(p, p.parent[n], p.slot[n])
<1>1. /\ p.parent[n] # 0 => p.parent[n] \in Stmts(p) /\ p.slot[n] \in Slots(p.kind[p.parent[n]])
      /\ p.parent[n] = 0 => p.slot[n] = 1
  BY TreeFacts
<1>2. n \in Members(p, p.parent[n], p.slot[n])
  BY DEF Members
<1>3. CASE p.parent[n] = 0
  BY <1>1, <1>2, <1>3 DEF IsBlock
<1>4. CASE p.parent[n] # 0
  BY <1>1, <1>2, <1>4 DEF IsBlock
<1> QED BY <1>3, <1>4

\* A block ends behind its start, and so does a statement, inside the block
\* that it is in.
LEMMA BlockSpan ==
  ASSUME NEW p, IsTree(p), NEW n, NEW s, IsBlock(p, n, s)
  PROVE  /\ InAt(p, n, s) \in Nat \ {0} /\ OutAt(p, n, s) \in Nat
         /\ InAt(p, n, s) <= OutAt(p, n, s)
  BY RowIs DEF Rowed

LEMMA StatementSpan ==
  ASSUME NEW p, IsTree(p), NEW n \in Stmts(p)
  PROVE  /\ StartAt(p, n) \in Nat \ {0} /\ StopAt(p, n) \in Nat /\ StartAt(p, n) <= StopAt(p, n)
         /\ InAt(p, p.parent[n], p.slot[n]) <= StartAt(p, n)
         /\ StopAt(p, n) <= OutAt(p, p.parent[n], p.slot[n])
<1>1. Rowed(p, Emit(p), p.parent[n], p.slot[n], InAt(p, p.parent[n], p.slot[n]),
            OutAt(p, p.parent[n], p.slot[n]), Layout(p).at) /\ n \in Members(p, p.parent[n], p.slot[n])
  BY RowIs, ParentIsBlock
<1>2. /\ Holds(Emit(p), StartAt(p, n), Code(p, n))
      /\ InAt(p, p.parent[n], p.slot[n]) <= StartAt(p, n)
      /\ StopAt(p, n) <= OutAt(p, p.parent[n], p.slot[n])
  BY <1>1 DEF Rowed, StartAt, StopAt
<1>3. StartAt(p, n) \in Nat \ {0}
  BY <1>2 DEF Holds
<1>4. Len(Code(p, n)) \in Nat
  <2>1. Code(p, n) \in Seq(Instrs)
    BY CodeIsCode
  <2> QED BY <2>1
<1>5. StopAt(p, n) \in Nat /\ StartAt(p, n) <= StopAt(p, n)
  BY <1>3, <1>4 DEF StopAt
<1> QED BY <1>2, <1>3, <1>5

\* A block lies within its statement.
LEMMA BlockWithin ==
  ASSUME NEW p, IsTree(p), NEW n \in Stmts(p), NEW s \in Slots(p.kind[n])
  PROVE  /\ StartAt(p, n) <= InAt(p, n, s) /\ OutAt(p, n, s) < StopAt(p, n)
         /\ InAt(p, p.parent[n], p.slot[n]) <= InAt(p, n, s)
         /\ OutAt(p, n, s) < OutAt(p, p.parent[n], p.slot[n])
<1>1. Framed(p, Emit(p), n, s, StartAt(p, n), FrameOf(p, n))
      /\ OutAt(p, n, s) < StopAt(p, n)
  BY FrameIs, FrameBlocks DEF OutAt, StopAt
<1>2. StartAt(p, n) <= InAt(p, n, s)
  BY <1>1 DEF Framed, InAt
<1>3. IsBlock(p, n, s) /\ IsBlock(p, p.parent[n], p.slot[n])
  BY ParentIsBlock DEF IsBlock
<1> DEFINE a == InAt(p, p.parent[n], p.slot[n])
           b == StartAt(p, n)
           c == InAt(p, n, s)
           d == OutAt(p, n, s)
           e == StopAt(p, n)
           f == OutAt(p, p.parent[n], p.slot[n])
<1>4. a \in Nat /\ b \in Nat /\ c \in Nat /\ d \in Nat /\ e \in Nat /\ f \in Nat /\ a <= b /\ e <= f
  BY <1>3, BlockSpan, StatementSpan
<1>5. b <= c /\ d < e
  BY <1>1, <1>2
<1> HIDE DEF a, b, c, d, e, f
<1>6. a <= c /\ d < f
  BY <1>4, <1>5
<1> QED BY <1>5, <1>6 DEF a, b, c, d, e, f

-----------------------------------------------------------------------------
(***************************************************************************)
(* Where control is between two statements.                                *)
(***************************************************************************)

\* The position of the machine when control is before a statement or behind a
\* block, and the block that control is in.
Here(p, ct) == IF ct.at = "end" THEN OutAt(p, ct.node, ct.arm) ELSE StartAt(p, ct.node)
BlockAt(p, ct) == IF ct.at = "end" THEN <<ct.node, ct.arm>>
                  ELSE <<p.parent[ct.node], p.slot[ct.node]>>

\* Control is in block s of n, and the machine at the position k.
Between(p, ct, n, s, k) ==
  /\ \/ ct = At("end", n, s)
     \/ \E m \in Members(p, n, s) : ct = At("start", m, 0)
  /\ Here(p, ct) = k

\* Control that enters a block, or goes on behind a statement, is between two
\* statements there.
LEMMA EnterBetween ==
  ASSUME IsTree(prog), NEW n, NEW s, IsBlock(prog, n, s)
  PROVE  Between(prog, Enter(n, s), n, s, InAt(prog, n, s))
<1> DEFINE p == prog
           M == Members(p, n, s)
<1>1. Rowed(p, Emit(p), n, s, InAt(p, n, s), OutAt(p, n, s), Layout(p).at)
  BY RowIs
<1>2. InAt(p, n, s) = IF M = {} THEN OutAt(p, n, s) ELSE StartAt(p, Min(M))
  BY <1>1 DEF Rowed, StartAt
<1>3. M # {} => Min(M) \in M
  <2>1. M \subseteq Nat
    BY TreeFacts DEF Members
  <2> QED BY <2>1, MinIsLeast
<1>4. CASE M = {}
  <2>1. Enter(n, s) = At("end", n, s)
    BY <1>4 DEF Enter
  <2> QED BY <1>2, <1>4, <2>1 DEF Between, Here, At
<1>5. CASE M # {}
  <2>1. Enter(n, s) = At("start", Min(M), 0)
    BY <1>5 DEF Enter
  <2> QED BY <1>2, <1>3, <1>5, <2>1 DEF Between, Here, At
<1> QED BY <1>4, <1>5

LEMMA AfterBetween ==
  ASSUME IsTree(prog), NEW n \in Stmts(prog)
  PROVE  Between(prog, After(n), prog.parent[n], prog.slot[n], StopAt(prog, n))
<1> DEFINE p == prog
           q == p.parent[n]
           r == p.slot[n]
           M == Members(p, q, r)
           later == {x \in M : x > n}
<1>1. Rowed(p, Emit(p), q, r, InAt(p, q, r), OutAt(p, q, r), Layout(p).at) /\ n \in M
  BY RowIs, ParentIsBlock
<1>2. StopAt(p, n) = IF later = {} THEN OutAt(p, q, r) ELSE StartAt(p, Min(later))
  BY <1>1 DEF Rowed, StartAt, StopAt
<1>3. later # {} => Min(later) \in M
  <2>1. later \subseteq Nat
    BY TreeFacts DEF Members
  <2>2. later # {} => Min(later) \in later
    BY <2>1, MinIsLeast
  <2> QED BY <2>2
<1>4. CASE later = {}
  <2>1. After(n) = At("end", q, r)
    BY <1>4 DEF After
  <2> QED BY <1>2, <1>4, <2>1 DEF Between, Here, At
<1>5. CASE later # {}
  <2>1. After(n) = At("start", Min(later), 0)
    BY <1>5 DEF After
  <2> QED BY <1>2, <1>3, <1>5, <2>1 DEF Between, Here, At
<1> QED BY <1>4, <1>5

-----------------------------------------------------------------------------
(***************************************************************************)
(* What is around a block.                                                 *)
(***************************************************************************)

\* The statements whose first block is block s of n or around it.
Bodies(p, n, s) ==
  {a \in Stmts(p) : n # 0 /\ ((a = n /\ s = 1) \/ <<a, 1>> \in Around(p, n))}

TriesIn(p, n, s) == {a \in Bodies(p, n, s) : p.kind[a] = "try"}
ForsIn(p, n, s)  == {a \in Bodies(p, n, s) : p.kind[a] = "for"}
LoopIn(p, n, s)  == IF n = 0 THEN 0 ELSE IF p.kind[n] \in Loops THEN n ELSE LoopOf(p, n)

\* What is around a statement is around the block that it is in.
LEMMA BodiesAround ==
  ASSUME NEW p, IsTree(p), NEW n \in Stmts(p), NEW a \in Stmts(p)
  PROVE  <<a, 1>> \in Around(p, n) <=> a \in Bodies(p, p.parent[n], p.slot[n])
<1> DEFINE q == p.parent[n]
           r == p.slot[n]
<1>1. /\ q = 0 => Around(p, n) = {}
      /\ q # 0 => Around(p, n) = {<<q, r>>} \cup Around(p, q)
  BY AroundRecursion
<1>2. <<a, 1>> = <<q, r>> <=> a = q /\ r = 1
  OBVIOUS
<1> DEFINE x == <<a, 1>>
           y == <<q, r>>
<1> HIDE DEF q, r, x, y
<1>3. x \in Around(p, n) <=> q # 0 /\ (x = y \/ x \in Around(p, q))
  BY <1>1 DEF q, r, y
<1>4. a \in Bodies(p, q, r) <=> q # 0 /\ (x = y \/ x \in Around(p, q))
  BY <1>2 DEF Bodies, x, y
<1> QED BY <1>3, <1>4 DEF q, r, x

\* What is around a block is around its statement, and the statement is when
\* the block is its first.
LEMMA BodiesStep ==
  ASSUME NEW p, IsTree(p), NEW n \in Stmts(p), NEW s
  PROVE  Bodies(p, n, s) = Bodies(p, p.parent[n], p.slot[n]) \cup IF s = 1 THEN {n} ELSE {}
<1>1. n # 0
  BY TreeFacts
<1>2. ASSUME NEW a \in Stmts(p)
      PROVE  a \in Bodies(p, n, s) <=>
               a \in Bodies(p, p.parent[n], p.slot[n]) \/ (s = 1 /\ a = n)
  BY <1>1, BodiesAround DEF Bodies
<1>3. Bodies(p, n, s) \subseteq Stmts(p) /\ Bodies(p, p.parent[n], p.slot[n]) \subseteq Stmts(p)
  BY DEF Bodies
<1> DEFINE A == Bodies(p, n, s)
           B == Bodies(p, p.parent[n], p.slot[n])
<1> HIDE DEF A, B
<1>4. A = B \cup IF s = 1 THEN {n} ELSE {}
  BY <1>2, <1>3 DEF A, B
<1> QED BY <1>4 DEF A, B

\* Nothing is around the block of the unit.
LEMMA TopBodies ==
  ASSUME NEW p, NEW s
  PROVE  Bodies(p, 0, s) = {} /\ TriesIn(p, 0, s) = {} /\ ForsIn(p, 0, s) = {}
  BY DEF Bodies, TriesIn, ForsIn

\* The try bodies around a statement are those around its block.
LEMMA TriesOfIs ==
  ASSUME NEW p, IsTree(p), NEW n \in Stmts(p)
  PROVE  TriesOf(p, n) = TriesIn(p, p.parent[n], p.slot[n])
<1>1. \A a \in Stmts(p) : <<a, 1>> \in Around(p, n) <=> a \in Bodies(p, p.parent[n], p.slot[n])
  BY BodiesAround
<1>2. Bodies(p, p.parent[n], p.slot[n]) \subseteq Stmts(p)
  BY DEF Bodies
<1> DEFINE B == Bodies(p, p.parent[n], p.slot[n])
<1> HIDE DEF B
<1>3. TriesOf(p, n) = {a \in B : p.kind[a] = "try"}
  BY <1>1, <1>2 DEF B, TriesOf
<1> QED BY <1>3 DEF B, TriesIn

\* What lies around a block goes on to its end.
LEMMA BodyEndsLater ==
  ASSUME NEW p, IsTree(p), NEW n, NEW s, IsBlock(p, n, s), NEW a \in Bodies(p, n, s)
  PROVE  /\ a \in Stmts(p) /\ 1 \in Slots(p.kind[a])
         /\ OutAt(p, n, s) <= OutAt(p, a, 1)
         /\ a <= n
<1> DEFINE Good(m, r) == /\ 1 \in Slots(p.kind[a]) /\ OutAt(p, m, r) <= OutAt(p, a, 1)
                         /\ a <= m
           Bad == {m \in Nat : m # 0 /\ \E r : IsBlock(p, m, r) /\ a \in Bodies(p, m, r) /\ ~ Good(m, r)}
<1>1. a \in Stmts(p) /\ n # 0 /\ n \in Stmts(p) /\ n \in Nat
  BY TreeFacts DEF Bodies, IsBlock
<1>2. Bad = {}
  <2> SUFFICES ASSUME Bad # {} PROVE FALSE
    OBVIOUS
  <2>1. PICK m \in Bad : \A h \in Bad : m <= h
    <3>1. Bad \in SUBSET Nat
      OBVIOUS
    <3> HIDE DEF Bad
    <3> QED BY <3>1, LeastElement
  <2>2. PICK r : IsBlock(p, m, r) /\ a \in Bodies(p, m, r) /\ ~ Good(m, r)
    BY <2>1
  <2>3. m \in Nat /\ m # 0
    BY <2>1
  <2>4. m \in Stmts(p) /\ r \in Slots(p.kind[m])
    BY <2>2, <2>3 DEF IsBlock
  <2> DEFINE q == p.parent[m]
             t == p.slot[m]
  <2>5. q \in Nat /\ q < m /\ IsBlock(p, q, t)
    BY <2>4, TreeFacts, ParentIsBlock
  <2>6. OutAt(p, m, r) < OutAt(p, q, t) /\ OutAt(p, m, r) \in Nat /\ OutAt(p, q, t) \in Nat
    BY <2>2, <2>4, <2>5, BlockWithin, BlockSpan
  <2>7. a \in Bodies(p, q, t) \/ (r = 1 /\ a = m)
    BY <2>2, <2>4, BodiesStep
  <2>8. ~ (r = 1 /\ a = m)
    <3> SUFFICES ASSUME r = 1, a = m PROVE Good(m, r)
      BY <2>2
    <3> QED BY <2>3, <2>4, <2>6
  <2>9. a \in Bodies(p, q, t) /\ q # 0
    BY <2>7, <2>8, TopBodies
  <2> HIDE DEF q, t
  <2>10. Good(q, t)
    <3>1. q \notin Bad
      BY <2>1, <2>3, <2>5
    <3> QED BY <2>5, <2>9, <3>1
  <2>11. OutAt(p, a, 1) \in Nat /\ a \in Nat
    <3>1. IsBlock(p, a, 1)
      BY <1>1, <2>10 DEF IsBlock
    <3> QED BY <1>1, <3>1, BlockSpan, TreeFacts
  <2>12. OutAt(p, m, r) <= OutAt(p, a, 1) /\ a <= m
    BY <2>3, <2>5, <2>6, <2>10, <2>11
  <2> QED BY <2>2, <2>10, <2>12
<1>3. Good(n, s)
  <2>1. n \notin Bad
    BY <1>2
  <2> HIDE DEF Good
  <2> QED BY <1>1, <2>1
<1> QED BY <1>1, <1>3

-----------------------------------------------------------------------------
(***************************************************************************)
(* The handlers of the try bodies around a block.                          *)
(***************************************************************************)

CatchAt(p, t)       == OutAt(p, t, 1) + 1
HandlersIn(p, n, s) == {CatchAt(p, t) : t \in TriesIn(p, n, s)}

\* The handlers of a block lie behind it.
LEMMA HandlersAhead ==
  ASSUME NEW p, IsTree(p), NEW n, NEW s, IsBlock(p, n, s), NEW h \in HandlersIn(p, n, s)
  PROVE  h \in Nat /\ OutAt(p, n, s) < h
<1>1. PICK t \in TriesIn(p, n, s) : h = CatchAt(p, t)
  BY DEF HandlersIn
<1>2. t \in Bodies(p, n, s)
  BY DEF TriesIn
<1>3. t \in Stmts(p) /\ 1 \in Slots(p.kind[t]) /\ OutAt(p, n, s) <= OutAt(p, t, 1)
  <2> DEFINE B == Bodies(p, n, s)
  <2>1. t \in B
    BY <1>2
  <2>2. \A a \in B : a \in Stmts(p) /\ 1 \in Slots(p.kind[a]) /\ OutAt(p, n, s) <= OutAt(p, a, 1)
    BY BodyEndsLater
  <2> HIDE DEF B
  <2> QED BY <2>1, <2>2
<1>4. IsBlock(p, t, 1)
  BY <1>3 DEF IsBlock
<1>5. OutAt(p, n, s) \in Nat /\ OutAt(p, t, 1) \in Nat
  BY <1>4, BlockSpan
<1> DEFINE a == OutAt(p, n, s)
           b == OutAt(p, t, 1)
<1>6. a \in Nat /\ b \in Nat /\ a <= b /\ h = b + 1
  BY <1>1, <1>3, <1>5 DEF CatchAt
<1> HIDE DEF a, b
<1>7. h \in Nat /\ a < h
  BY <1>6
<1> QED BY <1>7 DEF a

\* A try body adds the handler of its statement.
LEMMA HandlersInside ==
  ASSUME NEW p, IsTree(p), NEW n \in Stmts(p), NEW s
  PROVE  HandlersIn(p, n, s) = HandlersIn(p, p.parent[n], p.slot[n])
                                 \cup IF p.kind[n] = "try" /\ s = 1 THEN {CatchAt(p, n)} ELSE {}
<1>1. Bodies(p, n, s) = Bodies(p, p.parent[n], p.slot[n]) \cup IF s = 1 THEN {n} ELSE {}
  BY BodiesStep
<1> DEFINE A == TriesIn(p, n, s)
           B == TriesIn(p, p.parent[n], p.slot[n])
<1>2. A = B \cup IF p.kind[n] = "try" /\ s = 1 THEN {n} ELSE {}
  BY <1>1 DEF TriesIn
<1>3. HandlersIn(p, n, s) = {CatchAt(p, t) : t \in A}
      /\ HandlersIn(p, p.parent[n], p.slot[n]) = {CatchAt(p, t) : t \in B}
  BY DEF HandlersIn
<1> HIDE DEF A, B
<1> DEFINE X == HandlersIn(p, n, s)
           Y == HandlersIn(p, p.parent[n], p.slot[n])
           q == p.kind[n] = "try" /\ s = 1
<1> HIDE DEF X, Y, q
<1>4. X = Y \cup IF q THEN {CatchAt(p, n)} ELSE {}
  <2>1. A = B \cup IF q THEN {n} ELSE {}
    BY <1>2 DEF q
  <2>2. X = {CatchAt(p, t) : t \in A} /\ Y = {CatchAt(p, t) : t \in B}
    BY <1>3 DEF X, Y
  <2> QED BY <2>1, <2>2
<1> QED BY <1>4 DEF X, Y, q

\* A block that is no try body has the handlers of the block around its statement.
LEMMA HandlersOutside ==
  ASSUME NEW p, IsTree(p), NEW n \in Stmts(p), NEW s, ~ (p.kind[n] = "try" /\ s = 1)
  PROVE  HandlersIn(p, n, s) = HandlersIn(p, p.parent[n], p.slot[n])
<1> DEFINE H == HandlersIn(p, n, s)
           K == HandlersIn(p, p.parent[n], p.slot[n])
           C == CatchAt(p, n)
<1>1. H = K \cup IF p.kind[n] = "try" /\ s = 1 THEN {C} ELSE {}
  BY HandlersInside
<1> HIDE DEF H, K, C
<1>2. H = K
  BY <1>1
<1> QED BY <1>2 DEF H, K

\* The block of the unit has no handler.
LEMMA TopHandlers ==
  ASSUME NEW p, NEW s
  PROVE  HandlersIn(p, 0, s) = {}
  BY TopBodies DEF HandlersIn

\* A label of the statement, before its end, drops no handler of what is around.
LEMMA HandlersStay ==
  ASSUME NEW p, IsTree(p), NEW n, NEW s, IsBlock(p, n, s), NEW k \in Nat, k <= OutAt(p, n, s)
  PROVE  {h \in HandlersIn(p, n, s) : k < h} = HandlersIn(p, n, s)
<1>1. ASSUME NEW h \in HandlersIn(p, n, s) PROVE k < h
  <2> DEFINE a == OutAt(p, n, s)
  <2>1. h \in Nat /\ a < h /\ a \in Nat /\ k <= a
    BY HandlersAhead, BlockSpan
  <2> HIDE DEF a
  <2> QED BY <2>1
<1> QED BY <1>1

\* What is inside the try body is dropped where it is left for the end.
LEMMA HandlersDrop ==
  ASSUME NEW p, IsTree(p), NEW n \in Stmts(p), NEW s \in Slots(p.kind[n]),
         NEW k \in Nat, p.kind[n] = "try" /\ s = 1 => CatchAt(p, n) <= k,
         k <= StopAt(p, n)
  PROVE  {h \in HandlersIn(p, n, s) : k < h} = HandlersIn(p, p.parent[n], p.slot[n])
<1> DEFINE H == HandlersIn(p, p.parent[n], p.slot[n])
           x == CatchAt(p, n)
<1>1. HandlersIn(p, n, s) = H \cup IF p.kind[n] = "try" /\ s = 1 THEN {x} ELSE {}
  <2> DEFINE A == HandlersIn(p, n, s)
             y == IF p.kind[n] = "try" /\ s = 1 THEN {CatchAt(p, n)} ELSE {}
  <2>1. A = H \cup y
    BY HandlersInside
  <2> QED BY <2>1
<1>2. ASSUME NEW h \in H PROVE k < h
  <2> DEFINE a == OutAt(p, p.parent[n], p.slot[n])
             b == StopAt(p, n)
  <2>1. h \in Nat /\ a < h /\ a \in Nat /\ b <= a /\ b \in Nat /\ k <= b
    BY HandlersAhead, BlockSpan, ParentIsBlock, StatementSpan
  <2> HIDE DEF a, b
  <2> QED BY <2>1
<1>3. p.kind[n] = "try" /\ s = 1 => ~ (k < x)
  <2> SUFFICES ASSUME p.kind[n] = "try", s = 1 PROVE ~ (k < x)
    OBVIOUS
  <2>1. x \in Nat
    <3>1. IsBlock(p, n, 1)
      BY DEF IsBlock
    <3>2. OutAt(p, n, 1) \in Nat
      BY <3>1, BlockSpan
    <3> QED BY <3>2 DEF CatchAt
  <2>2. x <= k
    OBVIOUS
  <2> HIDE DEF x
  <2> QED BY <2>1, <2>2
<1> HIDE DEF H, x
<1>4. {h \in HandlersIn(p, n, s) : k < h} = H
  BY <1>1, <1>2, <1>3
<1> QED BY <1>4 DEF H

\* The loop around a statement is the loop around the block that it is in.
LEMMA LoopOfParent ==
  ASSUME NEW p, IsTree(p), NEW n \in Stmts(p)
  PROVE  LoopOf(p, n) = LoopIn(p, p.parent[n], p.slot[n])
<1> DEFINE q == p.parent[n]
           r == p.slot[n]
<1>1. CASE q = 0
  BY <1>1, LoopOfTop DEF LoopIn
<1>2. CASE q # 0
  <2>1. q \in Stmts(p) /\ n \in Members(p, q, r)
    BY <1>2, TreeFacts, ParentIsBlock
  <2>2. /\ p.kind[q] \in Loops => LoopOf(p, n) = q
        /\ p.kind[q] \notin Loops => LoopOf(p, n) = LoopOf(p, q)
    BY <2>1, AroundMember
  <2> HIDE DEF q, r
  <2>3. LoopIn(p, q, r) = IF p.kind[q] \in Loops THEN q ELSE LoopOf(p, q)
    BY <1>2 DEF LoopIn
  <2>4. LoopOf(p, n) = LoopIn(p, q, r)
    BY <2>2, <2>3
  <2> QED BY <2>4 DEF q, r
<1> QED BY <1>1, <1>2

\* The loop around a block is the statement or the loop around that.
LEMMA LoopInIs ==
  ASSUME NEW p, IsTree(p), NEW n \in Stmts(p), NEW s \in Slots(p.kind[n])
  PROVE  /\ p.kind[n] \in Loops => LoopIn(p, n, s) = n /\ s = 1
         /\ p.kind[n] \notin Loops => LoopIn(p, n, s) = LoopIn(p, p.parent[n], p.slot[n])
         /\ LoopIn(p, n, s) # 0 =>
              /\ LoopIn(p, n, s) \in Bodies(p, n, s)
              /\ LoopIn(p, n, s) \in Stmts(p)
              /\ p.kind[LoopIn(p, n, s)] \in Loops
<1>1. n # 0 /\ n \in Nat /\ p.kind[n] \in Kinds
  BY TreeFacts
<1>2. CASE p.kind[n] \in Loops
  <2>1. LoopIn(p, n, s) = n /\ s = 1
    BY <1>1, <1>2, SlotsOf DEF LoopIn
  <2>2. n \in Bodies(p, n, 1)
    BY <1>1 DEF Bodies
  <2> QED BY <1>2, <2>1, <2>2
<1>3. CASE p.kind[n] \notin Loops
  <2> DEFINE a == LoopOf(p, n)
  <2>1. LoopIn(p, n, s) = a
    BY <1>1, <1>3 DEF LoopIn
  <2>2. a = LoopIn(p, p.parent[n], p.slot[n])
    BY LoopOfParent
  <2>3. a # 0 => a \in LoopsAround(p, n)
    BY LoopOfIs
  <2> HIDE DEF a
  <2>4. a # 0 => a \in Stmts(p) /\ <<a, 1>> \in Around(p, n) /\ p.kind[a] \in Loops
    BY <2>3 DEF LoopsAround
  <2>5. a # 0 => a \in Bodies(p, n, s)
    BY <1>1, <2>4 DEF Bodies
  <2> QED BY <1>3, <2>1, <2>2, <2>4, <2>5
<1> QED BY <1>2, <1>3

\* No loop is around the block of the unit.
LEMMA TopLoop ==
  ASSUME NEW p, NEW s
  PROVE  LoopIn(p, 0, s) = 0
  BY DEF LoopIn

\* The labels of a loop.
EndAt(p, n)  == OutAt(p, n, 1) + 1
HeadAt(p, n) == StartAt(p, n) + IF p.kind[n] = "for" THEN 1 ELSE 0

\* The handlers kept by a jump to the end of the loop around, and by one to its
\* head that leaves no try body.
LoopLeaves(p, n, s) ==
  LET l == LoopIn(p, n, s) IN
  l # 0 =>
    /\ {h \in HandlersIn(p, n, s) : EndAt(p, l) < h} = HandlersIn(p, p.parent[l], p.slot[l])
    /\ (\A t \in TriesIn(p, n, s) : ~ (l < t)) =>
         HandlersIn(p, n, s) = HandlersIn(p, p.parent[l], p.slot[l])

\* A jump to an end of the loop keeps the handlers of the loop: from its own
\* block, from a block inside it, and so from every block.
LEMMA LoopLeavesSelf ==
  ASSUME NEW p, IsTree(p), NEW n \in Stmts(p), NEW s \in Slots(p.kind[n]), p.kind[n] \in Loops
  PROVE  LoopLeaves(p, n, s)
<1>1. LoopIn(p, n, s) = n /\ s = 1
  BY LoopInIs
<1>2. p.kind[n] # "try"
  BY DEF Loops
<1> DEFINE H == HandlersIn(p, p.parent[n], p.slot[n])
           x == IF p.kind[n] = "try" /\ s = 1 THEN {CatchAt(p, n)} ELSE {}
<1>3. HandlersIn(p, n, s) = H \cup x
  BY HandlersInside
<1>4. x = {}
  BY <1>2
<1>5. HandlersIn(p, n, s) = H
  BY <1>3, <1>4
<1>6. EndAt(p, n) \in Nat /\ EndAt(p, n) <= OutAt(p, p.parent[n], p.slot[n])
      /\ IsBlock(p, p.parent[n], p.slot[n])
  <2> DEFINE a == OutAt(p, n, 1)
             b == OutAt(p, p.parent[n], p.slot[n])
  <2>1. a < b /\ IsBlock(p, p.parent[n], p.slot[n]) /\ IsBlock(p, n, 1)
    BY <1>1, BlockWithin, ParentIsBlock DEF IsBlock
  <2>2. a \in Nat /\ b \in Nat
    BY <2>1, BlockSpan
  <2> HIDE DEF a, b
  <2>3. a + 1 \in Nat /\ a + 1 <= b
    BY <2>1, <2>2
  <2> QED BY <2>1, <2>3 DEF a, b, EndAt
<1> DEFINE k == EndAt(p, n)
<1> HIDE DEF k
<1>7. {h \in HandlersIn(p, p.parent[n], p.slot[n]) : k < h} = HandlersIn(p, p.parent[n], p.slot[n])
  BY <1>6, HandlersStay DEF k
<1> HIDE DEF H, x
<1>8. {h \in H : k < h} = H
  BY <1>7 DEF H
<1>9. {h \in HandlersIn(p, n, s) : EndAt(p, n) < h} = H
  BY <1>5, <1>8 DEF k
<1> QED BY <1>1, <1>5, <1>9 DEF LoopLeaves, H

LEMMA LoopLeavesInner ==
  ASSUME NEW p, IsTree(p), NEW n \in Stmts(p), NEW s \in Slots(p.kind[n]), p.kind[n] \notin Loops,
         LoopLeaves(p, p.parent[n], p.slot[n])
  PROVE  LoopLeaves(p, n, s)
<1> DEFINE q == p.parent[n]
           r == p.slot[n]
           l == LoopIn(p, n, s)
<1>1. l = LoopIn(p, q, r)
  BY LoopInIs
<1>2. SUFFICES ASSUME l # 0
      PROVE  /\ {h \in HandlersIn(p, n, s) : EndAt(p, l) < h} = HandlersIn(p, p.parent[l], p.slot[l])
             /\ (\A t \in TriesIn(p, n, s) : ~ (l < t)) =>
                  HandlersIn(p, n, s) = HandlersIn(p, p.parent[l], p.slot[l])
  BY DEF LoopLeaves
<1>3. /\ {h \in HandlersIn(p, q, r) : EndAt(p, l) < h} = HandlersIn(p, p.parent[l], p.slot[l])
      /\ (\A t \in TriesIn(p, q, r) : ~ (l < t)) =>
           HandlersIn(p, q, r) = HandlersIn(p, p.parent[l], p.slot[l])
  BY <1>1, <1>2 DEF LoopLeaves
<1>4. IsBlock(p, q, r) /\ q \in Nat /\ q < n /\ n \in Nat
  BY ParentIsBlock, TreeFacts
<1>5. q # 0 /\ q \in Stmts(p) /\ r \in Slots(p.kind[q])
  <2>1. q # 0
    BY <1>1, <1>2, TopLoop
  <2> QED BY <1>4, <2>1 DEF IsBlock
<1>6. l \in Bodies(p, q, r) /\ l \in Stmts(p)
  BY <1>1, <1>2, <1>5, LoopInIs
<1>7. 1 \in Slots(p.kind[l]) /\ OutAt(p, q, r) <= OutAt(p, l, 1) /\ l <= q
  BY <1>4, <1>6, BodyEndsLater
<1>8. l \in Nat /\ OutAt(p, l, 1) \in Nat /\ OutAt(p, q, r) \in Nat
  <2>1. IsBlock(p, l, 1)
    BY <1>6, <1>7 DEF IsBlock
  <2> QED BY <1>4, <1>6, <2>1, BlockSpan, TreeFacts
<1>9. l < n
  <2> HIDE DEF l, q
  <2> QED BY <1>4, <1>7, <1>8
<1> DEFINE tried == p.kind[n] = "try" /\ s = 1
           x == IF p.kind[n] = "try" /\ s = 1 THEN {CatchAt(p, n)} ELSE {}
           A == HandlersIn(p, n, s)
           B == HandlersIn(p, q, r)
           C == HandlersIn(p, p.parent[l], p.slot[l])
           e == EndAt(p, l)
<1>10. A = B \cup x
  BY HandlersInside
<1>11. tried => ~ (e < CatchAt(p, n))
  <2> SUFFICES ASSUME tried PROVE ~ (e < CatchAt(p, n))
    OBVIOUS
  <2>1. OutAt(p, n, 1) < OutAt(p, q, r) /\ OutAt(p, n, 1) \in Nat
    <3>1. IsBlock(p, n, 1)
      BY DEF IsBlock
    <3> QED BY <3>1, BlockWithin, BlockSpan
  <2> DEFINE a == OutAt(p, n, 1)
             b == OutAt(p, q, r)
             f == OutAt(p, l, 1)
  <2>2. a < b /\ b <= f /\ a \in Nat /\ b \in Nat /\ f \in Nat
    BY <1>7, <1>8, <2>1
  <2> HIDE DEF a, b, f
  <2>3. ~ (f + 1 < a + 1)
    BY <2>2
  <2> QED BY <2>3 DEF a, f, EndAt, CatchAt
<1>12. {h \in B : e < h} = C
  BY <1>3
<1>13. x = IF tried THEN {CatchAt(p, n)} ELSE {}
  OBVIOUS
<1> HIDE DEF A, B, C, e, x
<1>14. {h \in A : e < h} = C
  <2> HIDE DEF tried
  <2> QED BY <1>10, <1>11, <1>12, <1>13
<1>15. ASSUME \A t \in TriesIn(p, n, s) : ~ (l < t) PROVE A = C
  <2> DEFINE T == TriesIn(p, n, s)
             U == TriesIn(p, q, r)
             W == Bodies(p, q, r)
  <2>1. Bodies(p, n, s) = W \cup IF s = 1 THEN {n} ELSE {}
    BY BodiesStep
  <2>2. U \subseteq T /\ (tried => n \in T)
    BY <2>1 DEF TriesIn
  <2>3. ~ tried
    BY <1>9, <1>15, <2>2
  <2>4. x = {}
    BY <1>13, <2>3
  <2>5. B = C
    BY <1>3, <1>15, <2>2 DEF B, C
  <2> QED BY <1>10, <2>4, <2>5
<1> QED BY <1>14, <1>15 DEF A, C, e

LEMMA LoopAlwaysLeaves ==
  ASSUME NEW p, IsTree(p), NEW n, NEW s, IsBlock(p, n, s)
  PROVE  LoopLeaves(p, n, s)
<1> DEFINE Bad == {m \in Nat : \E r : IsBlock(p, m, r) /\ ~ LoopLeaves(p, m, r)}
<1>1. Bad = {}
  <2> SUFFICES ASSUME Bad # {} PROVE FALSE
    OBVIOUS
  <2>1. PICK m \in Bad : \A h \in Bad : m <= h
    <3>1. Bad \in SUBSET Nat
      OBVIOUS
    <3> HIDE DEF Bad
    <3> QED BY <3>1, LeastElement
  <2>2. PICK r : IsBlock(p, m, r) /\ ~ LoopLeaves(p, m, r)
    BY <2>1
  <2>3. m # 0
    BY <2>2, TopLoop DEF LoopLeaves
  <2>4. m \in Stmts(p) /\ r \in Slots(p.kind[m])
    BY <2>2, <2>3 DEF IsBlock
  <2>5. p.kind[m] \notin Loops
    BY <2>2, <2>4, LoopLeavesSelf
  <2> DEFINE q == p.parent[m]
             t == p.slot[m]
  <2>6. q \in Nat /\ q < m /\ m \in Nat /\ IsBlock(p, q, t)
    BY <2>4, TreeFacts, ParentIsBlock
  <2>7. ~ LoopLeaves(p, q, t)
    BY <2>2, <2>4, <2>5, LoopLeavesInner
  <2> HIDE DEF q, t
  <2>8. q \in Bad
    BY <2>6, <2>7
  <2> HIDE DEF Bad
  <2>9. m <= q
    BY <2>1, <2>8
  <2> QED BY <2>6, <2>9
<1>2. n \in Nat
  BY TreeFacts DEF IsBlock
<1> QED BY <1>1, <1>2

-----------------------------------------------------------------------------
(***************************************************************************)
(* The machine as a function of the trace: what it does next, its handlers *)
(* a set.                                                                  *)
(***************************************************************************)

State(at, live, last, temps0, iters0, res, seen) ==
  [pc |-> at, live |-> live, last |-> last, temps |-> temps0, iters |-> iters0,
   result |-> res, pos |-> seen]

\* The machine goes to `at`, and drops the handlers behind it.
WentTo(s, at, temps0, iters0, seen) ==
  State(at, {h \in s.live : at < h}, s.last, temps0, iters0, "running", seen)

\* The innermost handler, the next one in the code, takes the error e.
Threw(s, e, seen) ==
  IF s.live = {} THEN State(s.pc, s.live, s.last, s.temps, s.iters, e, seen)
  ELSE State(Min(s.live), {h \in s.live : Min(s.live) < h}, e, s.temps, s.iters, "running", seen)

Ended(s) == State(s.pc, s.live, s.last, s.temps, s.iters, "returned", s.pos)

AskOps == {"Eval", "Test", "IterStart", "StoreBinding", "StoreLastError"}

BothHold(op, temps0) ==
  IF \/ op = "and" /\ temps0["lhs"] # 0 /\ temps0["rhs"] # 0
     \/ op = "or" /\ (temps0["lhs"] # 0 \/ temps0["rhs"] # 0)
  THEN 1 ELSE 0

StartedWith(iters0, it, n) ==
  [x \in DOMAIN iters0 \cup {it} |-> IF x = it THEN [len |-> n, cursor |-> 0] ELSE iters0[x]]

\* One instruction x, the event e being the next of the trace.
TurnOf(c, x, e, s) ==
  CASE x.op = "Return" -> Ended(s)
    [] x.op = "Eval" ->
         IF e.error # NoError THEN Threw(s, e.error, s.pos + 1)
         ELSE WentTo(s, s.pc + 1, s.temps, s.iters, s.pos + 1)
    [] x.op = "Test" ->
         IF e.error # NoError THEN Threw(s, e.error, s.pos + 1)
         ELSE WentTo(s, s.pc + 1, [s.temps EXCEPT ![x.dst] = e.value], s.iters, s.pos + 1)
    [] x.op = "IterStart" ->
         IF e.error # NoError THEN Threw(s, e.error, s.pos + 1)
         ELSE WentTo(s, s.pc + 1, s.temps, StartedWith(s.iters, x.site, e.value), s.pos + 1)
    [] x.op \in {"and", "or"} ->
         WentTo(s, s.pc + 1, [s.temps EXCEPT ![x.dst] = BothHold(x.op, s.temps)], s.iters, s.pos)
    [] x.op = "Label" -> WentTo(s, s.pc + 1, s.temps, s.iters, s.pos)
    [] x.op = "Jump"  -> WentTo(s, LabelPos(c, x.target), s.temps, s.iters, s.pos)
    [] x.op = "JumpIfFalse" ->
         WentTo(s, IF s.temps[x.dst] = 0 THEN LabelPos(c, x.target) ELSE s.pc + 1,
                s.temps, s.iters, s.pos)
    [] x.op = "PushTry" ->
         State(s.pc + 1, {h \in s.live \cup {LabelPos(c, x.target)} : s.pc + 1 < h}, s.last,
               s.temps, s.iters, "running", s.pos)
    [] x.op = "IterHasNext" ->
         WentTo(s, s.pc + 1,
                [s.temps EXCEPT ![x.dst] = IF s.iters[x.site].cursor < s.iters[x.site].len
                                           THEN 1 ELSE 0],
                s.iters, s.pos)
    [] x.op = "IterNext" ->
         WentTo(s, s.pc + 1, [s.temps EXCEPT ![x.dst] = s.iters[x.site].cursor + 1],
                [s.iters EXCEPT ![x.site].cursor = @ + 1], s.pos)
    [] OTHER -> WentTo(s, s.pc + 1, s.temps, s.iters, s.pos + 1)

\* The instruction x can be run: the trace has the event that it asks for.
CanTurnOf(c, tr, x, s) ==
  /\ x.op \in AskOps => s.pos + 1 \in DOMAIN tr /\ tr[s.pos + 1].site = x.site
  /\ x.op = "StoreBinding" =>
       tr[s.pos + 1].error = NoError /\ tr[s.pos + 1].value = s.temps["elem"]
  /\ x.op = "StoreLastError" =>
       s.last # NoError /\ tr[s.pos + 1].error = s.last /\ tr[s.pos + 1].value = 0
  /\ x.op \in {"IterHasNext", "IterNext"} => x.site \in DOMAIN s.iters
  /\ x.op = "IterNext" => ~ (s.iters[x.site].cursor >= s.iters[x.site].len)
  /\ x.op = "PushTry" => \A h \in s.live : LabelPos(c, x.target) < h

Turn(c, tr, s) == IF s.pc \in DOMAIN c THEN TurnOf(c, c[s.pc], tr[s.pos + 1], s) ELSE Ended(s)

CanTurn(c, tr, s) ==
  s.result = "running" /\ (s.pc \in DOMAIN c => CanTurnOf(c, tr, c[s.pc], s))

\* s is where the machine gets from a, given the events of tr.
Reaches(c, tr, a, s) ==
  \E n \in Nat : \E r :
    /\ r[0] = a /\ r[n] = s
    /\ \A i \in 1 .. n : CanTurn(c, tr, r[i - 1]) /\ r[i] = Turn(c, tr, r[i - 1])

\* Getting somewhere: nowhere, one turn further, and the rest of the way.
LEMMA ReachesItself ==
  ASSUME NEW c, NEW tr, NEW a
  PROVE  Reaches(c, tr, a, a)
<1> DEFINE r == [i \in {0} |-> a]
<1>1. r[0] = a /\ 1 .. 0 = {} /\ 0 \in Nat
  OBVIOUS
<1> HIDE DEF r
<1> QED BY <1>1 DEF Reaches

LEMMA ReachesOn ==
  ASSUME NEW c, NEW tr, NEW a, NEW s, Reaches(c, tr, a, s), CanTurn(c, tr, s)
  PROVE  Reaches(c, tr, a, Turn(c, tr, s))
<1>0. PICK n \in Nat :
        \E r : /\ r[0] = a /\ r[n] = s
               /\ \A i \in 1 .. n : CanTurn(c, tr, r[i - 1]) /\ r[i] = Turn(c, tr, r[i - 1])
  BY DEF Reaches
<1>1. PICK r : /\ r[0] = a /\ r[n] = s
               /\ \A i \in 1 .. n : CanTurn(c, tr, r[i - 1]) /\ r[i] = Turn(c, tr, r[i - 1])
  BY <1>0
<1> DEFINE t == Turn(c, tr, s)
           q == [i \in 0 .. n + 1 |-> IF i = n + 1 THEN t ELSE r[i]]
<1>2. /\ n + 1 \in Nat /\ 0 \in 0 .. n + 1 /\ n + 1 \in 0 .. n + 1 /\ 0 # n + 1 /\ n + 1 # n
      /\ n \in 0 .. n + 1 /\ (n + 1) - 1 = n
  OBVIOUS
<1>3. q[0] = a /\ q[n + 1] = t /\ q[n] = s
  BY <1>1, <1>2
<1>4. ASSUME NEW i \in 1 .. n + 1
      PROVE  CanTurn(c, tr, q[i - 1]) /\ q[i] = Turn(c, tr, q[i - 1])
  <2>1. CASE i = n + 1
    BY <1>2, <1>3, <2>1
  <2>2. CASE i # n + 1
    <3>1. i \in 1 .. n /\ i \in 0 .. n + 1 /\ i - 1 \in 0 .. n + 1 /\ i - 1 # n + 1
      BY <2>2
    <3>2. q[i] = r[i] /\ q[i - 1] = r[i - 1]
      BY <2>2, <3>1
    <3> QED BY <1>1, <3>1, <3>2
  <2> QED BY <2>1, <2>2
<1> HIDE DEF q
<1> QED BY <1>2, <1>3, <1>4 DEF Reaches

LEMMA ReachesBy ==
  ASSUME NEW c, NEW tr, NEW a, NEW s, Reaches(c, tr, a, s), a # s
  PROVE  CanTurn(c, tr, a) /\ Reaches(c, tr, Turn(c, tr, a), s)
<1>0. PICK n \in Nat :
        \E r : /\ r[0] = a /\ r[n] = s
               /\ \A i \in 1 .. n : CanTurn(c, tr, r[i - 1]) /\ r[i] = Turn(c, tr, r[i - 1])
  BY DEF Reaches
<1>1. PICK r : /\ r[0] = a /\ r[n] = s
               /\ \A i \in 1 .. n : CanTurn(c, tr, r[i - 1]) /\ r[i] = Turn(c, tr, r[i - 1])
  BY <1>0
<1>2. n # 0
  BY <1>1
<1>3. 1 \in 1 .. n /\ 1 - 1 = 0 /\ n - 1 \in Nat /\ 0 \in 0 .. n - 1 /\ n - 1 \in 0 .. n - 1
      /\ (n - 1) + 1 = n /\ 0 + 1 = 1
  BY <1>2
<1>4. CanTurn(c, tr, a) /\ r[1] = Turn(c, tr, a)
  BY <1>1, <1>3
<1> DEFINE q == [i \in 0 .. n - 1 |-> r[i + 1]]
<1>5. q[0] = Turn(c, tr, a) /\ q[n - 1] = s
  BY <1>1, <1>3, <1>4
<1>6. ASSUME NEW i \in 1 .. n - 1
      PROVE  CanTurn(c, tr, q[i - 1]) /\ q[i] = Turn(c, tr, q[i - 1])
  <2>1. i \in 0 .. n - 1 /\ i - 1 \in 0 .. n - 1 /\ i + 1 \in 1 .. n /\ (i + 1) - 1 = i
        /\ (i - 1) + 1 = i
    BY <1>3
  <2>2. q[i] = r[i + 1] /\ q[i - 1] = r[i]
    BY <2>1
  <2> QED BY <1>1, <2>1, <2>2
<1> HIDE DEF q
<1> QED BY <1>3, <1>4, <1>5, <1>6 DEF Reaches

\* A longer trace takes the machine at least as far.
LEMMA TurnsLonger ==
  ASSUME NEW c, NEW tr, NEW longer, NEW s,
         \A i \in DOMAIN tr : i \in DOMAIN longer /\ longer[i] = tr[i], CanTurn(c, tr, s)
  PROVE  CanTurn(c, longer, s) /\ Turn(c, longer, s) = Turn(c, tr, s)
<1>1. CASE s.pc \notin DOMAIN c
  BY <1>1 DEF CanTurn, Turn
<1>2. CASE s.pc \in DOMAIN c
  <2> DEFINE x == c[s.pc]
             k == s.pos + 1
  <2>1. s.result = "running" /\ CanTurnOf(c, tr, x, s)
    BY <1>2 DEF CanTurn
  <2>2. x.op \in AskOps => k \in DOMAIN tr /\ tr[k].site = x.site
    BY <2>1 DEF CanTurnOf
  <2>3. x.op \in AskOps => k \in DOMAIN longer /\ longer[k] = tr[k]
    BY <2>2
  <2>4. CanTurnOf(c, longer, x, s)
    <3>1. x.op \in AskOps => k \in DOMAIN longer /\ longer[k].site = x.site
      BY <2>2, <2>3
    <3>2. x.op = "StoreBinding" => longer[k].error = NoError /\ longer[k].value = s.temps["elem"]
      <4>1. x.op = "StoreBinding" => x.op \in AskOps
        BY DEF AskOps
      <4>2. x.op = "StoreBinding" => tr[k].error = NoError /\ tr[k].value = s.temps["elem"]
        BY <2>1 DEF CanTurnOf
      <4> HIDE DEF x, k
      <4> QED BY <2>3, <4>1, <4>2
    <3>3. x.op = "StoreLastError" => s.last # NoError /\ longer[k].error = s.last /\ longer[k].value = 0
      <4>1. x.op = "StoreLastError" => x.op \in AskOps
        BY DEF AskOps
      <4>2. x.op = "StoreLastError" => s.last # NoError /\ tr[k].error = s.last /\ tr[k].value = 0
        BY <2>1 DEF CanTurnOf
      <4> HIDE DEF x, k
      <4> QED BY <2>3, <4>1, <4>2
    <3>4. /\ x.op \in {"IterHasNext", "IterNext"} => x.site \in DOMAIN s.iters
          /\ x.op = "IterNext" => ~ (s.iters[x.site].cursor >= s.iters[x.site].len)
          /\ x.op = "PushTry" => \A h \in s.live : LabelPos(c, x.target) < h
      BY <2>1 DEF CanTurnOf
    <3> QED BY <3>1, <3>2, <3>3, <3>4 DEF CanTurnOf
  <2>5. TurnOf(c, x, longer[k], s) = TurnOf(c, x, tr[k], s)
    <3>1. CASE x.op \in AskOps
      BY <2>3, <3>1
    <3>2. CASE x.op \notin AskOps
      <4>1. x.op # "Eval" /\ x.op # "Test" /\ x.op # "IterStart"
        BY <3>2 DEF AskOps
      <4> DEFINE e == longer[k]
                 f == tr[k]
      <4> HIDE DEF x, e, f
      <4> QED BY <4>1 DEF TurnOf
    <3> QED BY <3>1, <3>2
  <2> QED BY <1>2, <2>1, <2>4, <2>5 DEF CanTurn, Turn
<1> QED BY <1>1, <1>2

\* A longer trace does not change the way.
LEMMA ReachesLonger ==
  ASSUME NEW c, NEW tr, NEW longer, NEW a, NEW s,
         \A i \in DOMAIN tr : i \in DOMAIN longer /\ longer[i] = tr[i], Reaches(c, tr, a, s)
  PROVE  Reaches(c, longer, a, s)
<1>0. PICK n \in Nat :
        \E r : /\ r[0] = a /\ r[n] = s
               /\ \A i \in 1 .. n : CanTurn(c, tr, r[i - 1]) /\ r[i] = Turn(c, tr, r[i - 1])
  BY DEF Reaches
<1>1. PICK r : /\ r[0] = a /\ r[n] = s
               /\ \A i \in 1 .. n : CanTurn(c, tr, r[i - 1]) /\ r[i] = Turn(c, tr, r[i - 1])
  BY <1>0
<1>2. ASSUME NEW i \in 1 .. n
      PROVE  CanTurn(c, longer, r[i - 1]) /\ r[i] = Turn(c, longer, r[i - 1])
  <2>1. CanTurn(c, tr, r[i - 1]) /\ r[i] = Turn(c, tr, r[i - 1])
    BY <1>1
  <2> DEFINE s0 == r[i - 1]
  <2> HIDE DEF s0
  <2>2. CanTurn(c, longer, s0) /\ Turn(c, longer, s0) = Turn(c, tr, s0)
    BY <2>1, TurnsLonger DEF s0
  <2> QED BY <2>1, <2>2 DEF s0
<1> QED BY <1>1, <1>2 DEF Reaches

\* The machine of the specification, so seen.
Actual == State(pc, Elements(tryStack), lastError, temps, iters, result, pos)

\* It runs the code of the tree; its handlers are in order and no callback fails.
Machine ==
  /\ code = Emit(prog) /\ code \in Codes
  /\ pc \in Nat
  /\ tryStack \in Seq(1 .. Len(code)) /\ Descending(tryStack)
  /\ pending = NoError

\* The parts of a state.
LEMMA StateIs ==
  ASSUME NEW a, NEW b, NEW d, NEW e, NEW f, NEW g, NEW h
  PROVE  LET s == State(a, b, d, e, f, g, h) IN
         /\ s.pc = a /\ s.live = b /\ s.last = d /\ s.temps = e /\ s.iters = f /\ s.result = g
         /\ s.pos = h
  BY DEF State

LEMMA ActualIs ==
  /\ Actual.pc = pc /\ Actual.live = Elements(tryStack) /\ Actual.last = lastError
  /\ Actual.temps = temps /\ Actual.iters = iters /\ Actual.result = result /\ Actual.pos = pos
  BY StateIs DEF Actual

\* The code has a length.
LEMMA CodeLength ==
  ASSUME Machine
  PROVE  Len(code) \in Nat /\ DOMAIN code = 1 .. Len(code)
<1>1. code \in Seq(Instructions)
  BY CodesAssumption DEF Machine
<1> QED BY <1>1

\* A jump of the machine in either view.
LEMMA GoToGoes ==
  ASSUME Machine, NEW at \in Nat, GoTo(at, NoError), prog' = prog
  PROVE  Machine' /\ Actual' = WentTo(Actual, at, temps', iters', pos')
<1>1. /\ Len(code) \in Nat
  BY CodeLength
<1>2. /\ tryStack' = Prune(tryStack, at) /\ pc' = at /\ code' = code /\ lastError' = lastError
      /\ pending' = NoError /\ result' = "running"
  BY DEF GoTo, Drain
<1>3. Descending(tryStack') /\ Elements(tryStack') = {x \in Elements(tryStack) : at < x}
  BY <1>1, <1>2, PruneKeepsAhead DEF Machine
<1>4. tryStack' \in Seq(1 .. Len(code))
  BY <1>1, <1>2, PruneType DEF Machine
<1>5. Machine'
  BY <1>2, <1>3, <1>4 DEF Machine
<1>6. Actual' = State(at, Elements(tryStack'), lastError, temps', iters', "running", pos')
  BY <1>2 DEF Actual
<1>7. WentTo(Actual, at, temps', iters', pos')
        = State(at, {h \in Elements(tryStack) : at < h}, lastError, temps', iters', "running", pos')
  BY ActualIs DEF WentTo
<1> QED BY <1>3, <1>5, <1>6, <1>7

\* An error in either view.
LEMMA RaiseThrows ==
  ASSUME Machine, result = "running", NEW e, Raise(e, NoError), prog' = prog
  PROVE  Machine' /\ Actual' = Threw(Actual, e, pos')
<1>1. Len(code) \in Nat /\ tryStack \in Seq(1 .. Len(code)) /\ Descending(tryStack)
  BY CodeLength DEF Machine
<1>2. pending' = NoError /\ code' = code /\ temps' = temps /\ iters' = iters
  BY DEF Raise
<1>3. CASE tryStack = << >>
  <2>1. Elements(tryStack) = {}
    BY <1>3 DEF Elements
  <2>2. result' = e /\ pc' = pc /\ tryStack' = tryStack /\ lastError' = lastError
    BY <1>3 DEF Raise
  <2>3. Machine'
    BY <1>2, <2>2 DEF Machine
  <2>4. Actual' = State(pc, Elements(tryStack), lastError, temps, iters, e, pos')
    BY <1>2, <2>2 DEF Actual
  <2>5. Threw(Actual, e, pos') = State(pc, Elements(tryStack), lastError, temps, iters, e, pos')
    BY <2>1, ActualIs DEF Threw
  <2> QED BY <2>3, <2>4, <2>5
<1>4. CASE tryStack # << >>
  <2> DEFINE n == Len(tryStack)
             rest == SubSeq(tryStack, 1, n - 1)
             catch == tryStack[n]
             E == Elements(tryStack)
  <2>1. n \in Nat /\ n # 0 /\ n \in DOMAIN tryStack /\ DOMAIN tryStack = 1 .. n
    BY <1>1, <1>4
  <2>2. catch \in 1 .. Len(code) /\ catch \in Nat
    BY <1>1, <2>1
  <2>3. /\ lastError' = e /\ pc' = catch /\ tryStack' = Prune(rest, catch) /\ result' = result
    BY <1>4 DEF Raise
  <2>4. rest \in Seq(1 .. Len(code)) /\ Len(rest) = n - 1 /\ DOMAIN rest = 1 .. (n - 1)
        /\ \A i \in 1 .. (n - 1) : rest[i] = tryStack[i]
    <3>1. n - 1 \in Nat /\ n - 1 <= n /\ \A i \in 1 .. (n - 1) : tryStack[i] \in 1 .. Len(code)
      BY <1>1, <2>1
    <3> QED BY <1>1, <2>1, <3>1
  <2> HIDE DEF rest, n
  <2>5. Descending(rest)
    BY <1>1, <2>1, <2>4 DEF Descending
  <2>6. \A i \in 1 .. (n - 1) : catch < tryStack[i]
    BY <1>1, <2>1 DEF Descending
  <2>7. Elements(rest) = {x \in E : catch < x}
    <3>1. \A x \in E : catch < x => x \in Elements(rest)
      <4> SUFFICES ASSUME NEW x \in E, catch < x PROVE x \in Elements(rest)
        OBVIOUS
      <4>1. PICK i \in 1 .. n : x = tryStack[i]
        BY <2>1 DEF Elements
      <4>2. i # n
        BY <2>2, <4>1
      <4>3. i \in 1 .. (n - 1)
        BY <2>1, <4>1, <4>2
      <4> QED BY <2>4, <4>1, <4>3 DEF Elements
    <3>2. \A x \in Elements(rest) : x \in E /\ catch < x
      <4> SUFFICES ASSUME NEW x \in Elements(rest) PROVE x \in E /\ catch < x
        OBVIOUS
      <4>1. PICK i \in 1 .. (n - 1) : x = rest[i]
        BY <2>4 DEF Elements
      <4>2. i \in DOMAIN tryStack /\ x = tryStack[i]
        BY <2>1, <2>4, <4>1
      <4> QED BY <2>6, <4>2 DEF Elements
    <3> QED BY <3>1, <3>2
  <2>8. catch \in E /\ \A x \in E : catch <= x
    <3>1. catch \in E
      BY <2>1 DEF Elements
    <3>2. ASSUME NEW x \in E PROVE catch <= x
      <4>1. PICK i \in 1 .. n : x = tryStack[i]
        BY <2>1 DEF Elements
      <4>2. i = n \/ i \in 1 .. (n - 1)
        BY <2>1
      <4>3. tryStack[i] \in Nat
        BY <1>1, <2>1
      <4>4. i \in 1 .. (n - 1) => catch < tryStack[i]
        BY <2>6
      <4> HIDE DEF catch
      <4>5. CASE i = n
        BY <2>2, <4>1, <4>5 DEF catch
      <4>6. CASE i \in 1 .. (n - 1)
        BY <2>2, <4>1, <4>3, <4>4, <4>6
      <4> QED BY <4>2, <4>5, <4>6
    <3> QED BY <3>1, <3>2
  <2>9. Min(E) = catch
    <3>1. E \subseteq Nat
      BY <1>1 DEF Elements
    <3>2. Min(E) \in E /\ \A y \in E : Min(E) <= y
      BY <2>8, <3>1, MinIsLeast
    <3> DEFINE m == Min(E)
    <3>3. m \in Nat /\ m <= catch /\ catch <= m
      BY <2>8, <3>1, <3>2
    <3> HIDE DEF m, catch, E
    <3>4. m = catch
      BY <2>2, <3>3
    <3> QED BY <3>4 DEF m
  <2>10. Elements(tryStack') = {x \in E : catch < x} /\ Descending(tryStack')
         /\ tryStack' \in Seq(1 .. Len(code))
    <3>1. Descending(tryStack') /\ Elements(tryStack') = {x \in Elements(rest) : catch < x}
      BY <1>1, <2>2, <2>3, <2>4, <2>5, PruneKeepsAhead
    <3>2. tryStack' \in Seq(1 .. Len(code))
      BY <1>1, <2>2, <2>3, <2>4, PruneType
    <3> QED BY <2>7, <3>1, <3>2
  <2>11. Machine'
    BY <1>2, <2>2, <2>3, <2>10 DEF Machine
  <2>12. Actual' = State(catch, Elements(tryStack'), e, temps, iters, "running", pos')
    BY <1>2, <2>3 DEF Actual
  <2>13. Threw(Actual, e, pos')
           = State(catch, {h \in E : catch < h}, e, temps, iters, "running", pos')
    <3>1. E # {}
      BY <2>8
    <3>2. Actual.live = E /\ Actual.temps = temps /\ Actual.iters = iters
      BY ActualIs
    <3> DEFINE a == Actual
    <3> HIDE DEF a, catch, E
    <3> QED BY <2>9, <3>1, <3>2 DEF Threw, a
  <2> QED BY <2>10, <2>11, <2>12, <2>13
<1> QED BY <1>3, <1>4

\* What can be assumed of the machine's next instruction.
LEMMA TurnIs ==
  ASSUME Machine, pc \in DOMAIN code, CanTurn(code, trace, Actual)
  PROVE  /\ Turn(code, trace, Actual) = TurnOf(code, code[pc], trace[pos + 1], Actual)
         /\ CanTurnOf(code, trace, code[pc], Actual)
         /\ result = "running"
         /\ code[pc].op \in Jumps \cup {"PushTry"} => LabelPos(code, code[pc].target) \in Nat
<1>1. Actual.pc = pc /\ Actual.pos = pos /\ Actual.result = result
  BY ActualIs
<1> DEFINE a == Actual
<1>2. a.pc = pc /\ a.pos = pos /\ a.result = result /\ CanTurn(code, trace, a)
  BY <1>1
<1> HIDE DEF a
<1>3. /\ Turn(code, trace, a) = TurnOf(code, code[pc], trace[pos + 1], a)
      /\ CanTurnOf(code, trace, code[pc], a)
      /\ result = "running"
  BY <1>2 DEF Turn, CanTurn
<1>4. code[pc].op \in Jumps \cup {"PushTry"} => LabelPos(code, code[pc].target) \in Nat
  <2> SUFFICES ASSUME code[pc].op \in Jumps \cup {"PushTry"}
               PROVE  LabelPos(code, code[pc].target) \in Nat
    OBVIOUS
  <2>1. LabelPos(code, code[pc].target) \in 1 .. Len(code)
    BY TargetsExist DEF Machine
  <2> QED BY <2>1, CodeLength
<1> QED BY <1>3, <1>4 DEF a

\* No callback fails: nothing is pending after an evaluation either.
LEMMA NothingQueued ==
  ASSUME HostErrors = {}, Machine, NEW o \in Values(0 .. MaxLen)
  PROVE  Queued(o) = NoError
<1>1. o.host = NoError
  BY DEF Values
<1> QED BY <1>1 DEF Queued, Machine

\* Every step of the machine is the turn that the trace determines.
LEMMA EvaluationTurns ==
  ASSUME HostErrors = {}, Machine, CanTurn(code, trace, Actual), prog' = prog, ReplayEvaluation
  PROVE  Machine' /\ Actual' = Turn(code, trace, Actual)
<1>1. PICK o \in Values(0 .. MaxLen) : Replay(o) /\ (ExecEval(o) \/ ExecTest(o) \/ ExecIterStart(o))
  BY DEF ReplayEvaluation
<1> DEFINE x == code[pc]
           e == trace[pos + 1]
           a == Actual
           t == Turn(code, trace, Actual)
<1>2. pc \in DOMAIN code /\ x.op \in {"Eval", "Test", "IterStart"}
  BY <1>1 DEF ExecEval, ExecTest, ExecIterStart, Fetches
<1>3. t = TurnOf(code, x, e, a) /\ result = "running"
  BY <1>2, TurnIs
<1>4. e.error = o.error /\ e.value = o.value /\ pos' = pos + 1
  BY <1>1 DEF Replay
<1>5. Queued(o) = NoError /\ pc + 1 \in Nat
  BY NothingQueued DEF Machine
<1>6. a.pc = pc /\ a.pos = pos /\ a.temps = temps /\ a.iters = iters
  BY ActualIs
<1>7. CASE o.error # NoError
  <2>1. Raise(o.error, NoError)
    BY <1>1, <1>5, <1>7 DEF ExecEval, ExecTest, ExecIterStart
  <2>2. Machine' /\ Actual' = Threw(Actual, o.error, pos')
    BY <1>3, <2>1, RaiseThrows
  <2>3. t = Threw(a, e.error, a.pos + 1)
    <3>1. e.error # NoError
      BY <1>4, <1>7
    <3> HIDE DEF x, e, a, t
    <3> QED BY <1>2, <1>3, <3>1 DEF TurnOf
  <2> QED BY <1>4, <1>6, <2>2, <2>3
<1>8. CASE o.error = NoError
  <2>0. e.error = NoError
    BY <1>4, <1>8
  <2>1. GoTo(pc + 1, NoError)
    BY <1>1, <1>5, <1>8 DEF ExecEval, ExecTest, ExecIterStart, Advance
  <2>2. Machine' /\ Actual' = WentTo(a, pc + 1, temps', iters', pos + 1)
    BY <1>4, <1>5, <2>1, GoToGoes
  <2>3. CASE x.op = "Eval"
    <3>1. temps' = temps /\ iters' = iters
      BY <1>1, <1>8, <2>3 DEF ExecEval, ExecTest, ExecIterStart, Fetches
    <3>2. t = WentTo(a, pc + 1, temps, iters, pos + 1)
      <4> HIDE DEF x, e, a, t
      <4> QED BY <1>3, <1>6, <2>0, <2>3 DEF TurnOf
    <3> QED BY <2>2, <3>1, <3>2
  <2>4. CASE x.op = "Test"
    <3>1. temps' = [temps EXCEPT ![x.dst] = e.value] /\ iters' = iters
      BY <1>1, <1>4, <1>8, <2>4 DEF ExecEval, ExecTest, ExecIterStart, Fetches, SetTemp
    <3>2. t = WentTo(a, pc + 1, [temps EXCEPT ![x.dst] = e.value], iters, pos + 1)
      <4> HIDE DEF x, e, a, t
      <4> QED BY <1>3, <1>6, <2>0, <2>4 DEF TurnOf
    <3> QED BY <2>2, <3>1, <3>2
  <2>5. CASE x.op = "IterStart"
    <3>1. temps' = temps /\ iters' = StartedWith(iters, x.site, e.value)
      BY <1>1, <1>4, <1>8, <2>5 DEF ExecEval, ExecTest, ExecIterStart, Fetches, StartedWith
    <3>2. t = WentTo(a, pc + 1, temps, StartedWith(iters, x.site, e.value), pos + 1)
      <4> HIDE DEF x, e, a, t
      <4> QED BY <1>3, <1>6, <2>0, <2>5 DEF TurnOf
    <3> QED BY <2>2, <3>1, <3>2
  <2> QED BY <1>2, <2>3, <2>4, <2>5
<1> QED BY <1>7, <1>8

\* A binding is the turn that the trace determines, if it has the value bound.
LEMMA BindingTurns ==
  ASSUME Machine, CanTurn(code, trace, Actual), prog' = prog, ReplayBinding
  PROVE  Machine' /\ Actual' = Turn(code, trace, Actual)
<1> DEFINE x == code[pc]
           e == trace[pos + 1]
           a == Actual
           t == Turn(code, trace, Actual)
<1>1. pc \in DOMAIN code /\ x.op \in {"StoreBinding", "StoreLastError"}
  BY DEF ReplayBinding, ExecStoreBinding, ExecStoreLastError, Fetches
<1>2. t = TurnOf(code, x, e, a) /\ result = "running" /\ CanTurnOf(code, trace, x, a)
  BY <1>1, TurnIs
<1>3. a.pc = pc /\ a.pos = pos /\ a.temps = temps /\ a.iters = iters /\ a.last = lastError
  BY ActualIs
<1>4. pos' = pos + 1 /\ pending = NoError /\ pc + 1 \in Nat
  BY DEF ReplayBinding, Replay, Machine
<1>5. x.op = "StoreLastError" => lastError # NoError
  <2> HIDE DEF x, a
  <2> QED BY <1>2, <1>3 DEF CanTurnOf
<1>6. GoTo(pc + 1, NoError) /\ temps' = temps /\ iters' = iters
  <2>1. CASE ExecStoreBinding
    BY <1>4, <2>1 DEF ExecStoreBinding, Advance
  <2>2. CASE ExecStoreLastError
    <3>1. lastError # NoError
      BY <1>5, <2>2 DEF ExecStoreLastError, Fetches
    <3> QED BY <1>4, <2>2, <3>1 DEF ExecStoreLastError, Advance
  <2> QED BY <2>1, <2>2 DEF ReplayBinding
<1>7. Machine' /\ Actual' = WentTo(a, pc + 1, temps, iters, pos + 1)
  BY <1>4, <1>6, GoToGoes
<1>8. t = WentTo(a, pc + 1, temps, iters, pos + 1)
  <2> HIDE DEF x, e, a, t
  <2> QED BY <1>1, <1>2, <1>3 DEF TurnOf
<1> QED BY <1>7, <1>8

\* The silent ones that go somewhere.
LEMMA SilentTurns ==
  ASSUME Machine, CanTurn(code, trace, Actual), prog' = prog, pos' = pos,
         \/ ExecBinaryLogical \/ ExecLabel \/ ExecJump \/ ExecJumpIfFalse
         \/ ExecIterHasNext \/ ExecIterNext
  PROVE  Machine' /\ Actual' = Turn(code, trace, Actual)
<1> DEFINE x == code[pc]
           e == trace[pos + 1]
           a == Actual
           t == Turn(code, trace, Actual)
<1>1. pc \in DOMAIN code
      /\ x.op \in {"and", "or", "Label", "Jump", "JumpIfFalse", "IterHasNext", "IterNext"}
  BY DEF ExecBinaryLogical, ExecLabel, ExecJump, ExecJumpIfFalse, ExecIterHasNext, ExecIterNext,
         Fetches
<1>2. /\ t = TurnOf(code, x, e, a) /\ result = "running" /\ CanTurnOf(code, trace, x, a)
      /\ x.op \in Jumps => LabelPos(code, x.target) \in Nat
  BY <1>1, TurnIs
<1>3. a.pc = pc /\ a.pos = pos /\ a.temps = temps /\ a.iters = iters /\ a.last = lastError
  BY ActualIs
<1>4. pending = NoError /\ pc + 1 \in Nat
  BY DEF Machine
<1>5. ASSUME NEW at \in Nat, NEW temps0, NEW iters0, GoTo(at, NoError), temps' = temps0,
             iters' = iters0, t = WentTo(a, at, temps0, iters0, pos)
      PROVE  Machine' /\ Actual' = t
  <2>1. Machine' /\ Actual' = WentTo(a, at, temps', iters', pos')
    BY <1>5, GoToGoes
  <2> QED BY <1>5, <2>1
<1> DEFINE Goal == Machine' /\ Actual' = t
<1>6. CASE ExecBinaryLogical
  <2>1. x.op \in {"and", "or"}
    BY <1>6 DEF ExecBinaryLogical, Fetches
  <2>2. GoTo(pc + 1, NoError) /\ iters' = iters
        /\ temps' = [temps EXCEPT ![x.dst] = BothHold(x.op, temps)]
    BY <1>4, <1>6 DEF ExecBinaryLogical, Advance, SetTemp, BothHold
  <2>3. t = WentTo(a, pc + 1, [temps EXCEPT ![x.dst] = BothHold(x.op, temps)], iters, pos)
    <3> HIDE DEF x, e, a, t
    <3> QED BY <1>2, <1>3, <2>1 DEF TurnOf
  <2> HIDE DEF t, x, a
  <2> QED BY <1>4, <1>5, <2>2, <2>3 DEF t
<1>7. CASE ExecLabel
  <2>1. x.op = "Label" /\ GoTo(pc + 1, NoError) /\ temps' = temps /\ iters' = iters
    BY <1>4, <1>7 DEF ExecLabel, Fetches, Advance
  <2>3. t = WentTo(a, pc + 1, temps, iters, pos)
    <3> HIDE DEF x, e, a, t
    <3> QED BY <1>2, <1>3, <2>1 DEF TurnOf
  <2> HIDE DEF t, x, a
  <2> QED BY <1>4, <1>5, <2>1, <2>3 DEF t
<1>8. CASE ExecJump
  <2>1. /\ x.op = "Jump" /\ GoTo(LabelPos(code, x.target), NoError) /\ temps' = temps /\ iters' = iters
        /\ LabelPos(code, x.target) \in Nat
    BY <1>2, <1>4, <1>8 DEF ExecJump, Fetches, Jumps
  <2>3. t = WentTo(a, LabelPos(code, x.target), temps, iters, pos)
    <3> HIDE DEF x, e, a, t
    <3> QED BY <1>2, <1>3, <2>1 DEF TurnOf
  <2> HIDE DEF t, x, a
  <2> QED BY <1>5, <2>1, <2>3 DEF t
<1>9. CASE ExecJumpIfFalse
  <2> DEFINE at == IF temps[x.dst] = 0 THEN LabelPos(code, x.target) ELSE pc + 1
  <2>1. x.op = "JumpIfFalse" /\ GoTo(at, NoError) /\ temps' = temps /\ iters' = iters
    BY <1>4, <1>9 DEF ExecJumpIfFalse, Fetches, Advance
  <2>2. at \in Nat
    BY <1>2, <1>4, <2>1 DEF Jumps
  <2>3. t = WentTo(a, at, temps, iters, pos)
    <3> HIDE DEF x, e, a, t
    <3> QED BY <1>2, <1>3, <2>1 DEF TurnOf
  <2> HIDE DEF t, x, a, at
  <2> QED BY <1>5, <2>1, <2>2, <2>3 DEF t
<1>10. CASE ExecIterHasNext
  <2>0. x.op = "IterHasNext"
    BY <1>10 DEF ExecIterHasNext, Fetches
  <2>1. x.site \in DOMAIN iters
    <3> HIDE DEF x, a
    <3> QED BY <1>2, <1>3, <2>0 DEF CanTurnOf
  <2> DEFINE new == [temps EXCEPT ![x.dst] = IF iters[x.site].cursor < iters[x.site].len THEN 1 ELSE 0]
  <2>2. GoTo(pc + 1, NoError) /\ iters' = iters /\ temps' = new
    BY <1>4, <1>10, <2>1 DEF ExecIterHasNext, Fetches, Advance, SetTemp
  <2>3. t = WentTo(a, pc + 1, new, iters, pos)
    <3> HIDE DEF x, e, a, t
    <3> QED BY <1>2, <1>3, <2>0 DEF TurnOf
  <2> HIDE DEF t, x, a, new
  <2> QED BY <1>4, <1>5, <2>2, <2>3 DEF t
<1>11. CASE ExecIterNext
  <2>0. x.op = "IterNext"
    BY <1>11 DEF ExecIterNext, Fetches
  <2>1. x.site \in DOMAIN iters /\ ~ (iters[x.site].cursor >= iters[x.site].len)
    <3> HIDE DEF x, a
    <3> QED BY <1>2, <1>3, <2>0 DEF CanTurnOf
  <2> DEFINE new == [temps EXCEPT ![x.dst] = iters[x.site].cursor + 1]
             its == [iters EXCEPT ![x.site].cursor = @ + 1]
  <2>2. GoTo(pc + 1, NoError) /\ iters' = its /\ temps' = new
    <3>1. ~ (x.site \notin DOMAIN iters)
      BY <2>1
    <3>2. /\ iters' = its /\ SetTemp(x.dst, iters[x.site].cursor + 1) /\ Advance(pending)
      BY <1>11, <2>1, <3>1 DEF ExecIterNext
    <3> QED BY <1>4, <3>2 DEF Advance, SetTemp
  <2>3. t = WentTo(a, pc + 1, new, its, pos)
    <3> HIDE DEF x, e, a, t
    <3> QED BY <1>2, <1>3, <2>0 DEF TurnOf
  <2> HIDE DEF t, x, a, new, its
  <2> QED BY <1>4, <1>5, <2>2, <2>3 DEF t
<1> QED BY <1>6, <1>7, <1>8, <1>9, <1>10, <1>11

\* A handler pushed is the innermost.
LEMMA PushTryTurns ==
  ASSUME Machine, CanTurn(code, trace, Actual), prog' = prog, pos' = pos, ExecPushTry
  PROVE  Machine' /\ Actual' = Turn(code, trace, Actual)
<1> DEFINE x == code[pc]
           e == trace[pos + 1]
           a == Actual
           t == Turn(code, trace, Actual)
           catch == LabelPos(code, x.target)
           pushed == Append(tryStack, catch)
           n == Len(tryStack)
<1>1. pc \in DOMAIN code /\ x.op = "PushTry"
  BY DEF ExecPushTry, Fetches
<1>2. t = TurnOf(code, x, e, a) /\ result = "running" /\ CanTurnOf(code, trace, x, a)
  BY <1>1, TurnIs
<1>3. /\ a.pc = pc /\ a.pos = pos /\ a.temps = temps /\ a.iters = iters /\ a.last = lastError
      /\ a.live = Elements(tryStack)
  BY ActualIs
<1>4. pending = NoError /\ pc + 1 \in Nat /\ tryStack \in Seq(1 .. Len(code)) /\ Descending(tryStack)
  BY DEF Machine
<1>5. Len(code) \in Nat
  BY CodeLength
<1>6. catch \in 1 .. Len(code)
  BY <1>1, TargetsExist DEF Machine
<1>7. \A h \in Elements(tryStack) : catch < h
  <2> HIDE DEF x, a
  <2> QED BY <1>1, <1>2, <1>3 DEF CanTurnOf
<1>8. /\ n \in Nat /\ DOMAIN tryStack = 1 .. n /\ pushed \in Seq(1 .. Len(code))
      /\ DOMAIN pushed = 1 .. n + 1 /\ pushed[n + 1] = catch
      /\ \A i \in 1 .. n : pushed[i] = tryStack[i] /\ tryStack[i] \in 1 .. Len(code)
  BY <1>4, <1>6
<1> HIDE DEF pushed, catch, n
<1>9. Descending(pushed)
  <2> SUFFICES ASSUME NEW i \in 1 .. n + 1, NEW j \in 1 .. n + 1, i < j
               PROVE  pushed[j] < pushed[i]
    BY <1>8 DEF Descending
  <2>1. i \in 1 .. n
    BY <1>8
  <2>2. CASE j = n + 1
    <3>1. tryStack[i] \in Elements(tryStack)
      BY <1>8, <2>1 DEF Elements
    <3> QED BY <1>7, <1>8, <2>1, <2>2, <3>1
  <2>3. CASE j # n + 1
    <3>1. j \in 1 .. n
      BY <1>8, <2>3
    <3> QED BY <1>4, <1>8, <2>1, <3>1 DEF Descending
  <2> QED BY <2>2, <2>3
<1>10. Elements(pushed) = Elements(tryStack) \cup {catch}
  <2>1. \A y \in Elements(pushed) : y \in Elements(tryStack) \/ y = catch
    <3> SUFFICES ASSUME NEW y \in Elements(pushed) PROVE y \in Elements(tryStack) \/ y = catch
      OBVIOUS
    <3>1. PICK i \in 1 .. n + 1 : y = pushed[i]
      BY <1>8 DEF Elements
    <3>2. i = n + 1 \/ i \in 1 .. n
      BY <1>8
    <3> QED BY <1>8, <3>1, <3>2 DEF Elements
  <2>2. n + 1 \in 1 .. n + 1 /\ 1 .. n \subseteq 1 .. n + 1
    BY <1>8
  <2>3. catch \in Elements(pushed)
    BY <1>8, <2>2 DEF Elements
  <2>4. \A y \in Elements(tryStack) : y \in Elements(pushed)
    BY <1>8, <2>2 DEF Elements
  <2> QED BY <2>1, <2>3, <2>4
<1>11. /\ pc' = pc + 1 /\ tryStack' = Prune(pushed, pc + 1) /\ pending' = NoError
       /\ result' = "running" /\ code' = code /\ lastError' = lastError /\ temps' = temps
       /\ iters' = iters
  BY <1>4 DEF ExecPushTry, Drain, pushed, catch
<1>12. /\ Descending(tryStack') /\ tryStack' \in Seq(1 .. Len(code))
       /\ Elements(tryStack') = {h \in Elements(tryStack) \cup {catch} : pc + 1 < h}
  <2>1. Descending(tryStack') /\ Elements(tryStack') = {h \in Elements(pushed) : pc + 1 < h}
    BY <1>4, <1>5, <1>8, <1>9, <1>11, PruneKeepsAhead
  <2>2. tryStack' \in Seq(1 .. Len(code))
    BY <1>4, <1>5, <1>8, <1>11, PruneType
  <2> QED BY <1>10, <2>1, <2>2
<1>13. Machine'
  BY <1>4, <1>11, <1>12 DEF Machine
<1>14. Actual' = State(pc + 1, Elements(tryStack'), lastError, temps, iters, "running", pos)
  BY <1>11 DEF Actual
<1>15. t = State(pc + 1, {h \in Elements(tryStack) \cup {catch} : pc + 1 < h}, lastError, temps,
                 iters, "running", pos)
  <2>1. catch = LabelPos(code, x.target)
    BY DEF catch
  <2> HIDE DEF x, e, a, t
  <2> QED BY <1>1, <1>2, <1>3, <2>1 DEF TurnOf
<1> QED BY <1>12, <1>13, <1>14, <1>15

\* So is the end.
LEMMA ReturnTurns ==
  ASSUME Machine, CanTurn(code, trace, Actual), prog' = prog, pos' = pos, ExecReturn
  PROVE  Machine' /\ Actual' = Turn(code, trace, Actual)
<1>1. /\ result' = "returned" /\ pending' = NoError /\ code' = code /\ pc' = pc
      /\ tryStack' = tryStack /\ lastError' = lastError /\ temps' = temps /\ iters' = iters
  BY DEF ExecReturn, Drain, Machine
<1>2. Machine'
  BY <1>1 DEF Machine
<1>3. Actual' = State(pc, Elements(tryStack), lastError, temps, iters, "returned", pos)
  BY <1>1 DEF Actual
<1>4. Ended(Actual) = State(pc, Elements(tryStack), lastError, temps, iters, "returned", pos)
  BY ActualIs DEF Ended
<1> DEFINE x == code[pc]
           e == trace[pos + 1]
           a == Actual
           t == Turn(code, trace, Actual)
<1>5. t = Ended(a)
  <2>1. CASE pc \in DOMAIN code
    <3>1. t = TurnOf(code, x, e, a) /\ x.op = "Return"
      BY <2>1, TurnIs DEF ExecReturn
    <3> HIDE DEF x, e, a, t
    <3> QED BY <3>1 DEF TurnOf
  <2>2. CASE pc \notin DOMAIN code
    <3>1. a.pc = pc
      BY ActualIs
    <3> HIDE DEF a
    <3> QED BY <2>2, <3>1 DEF Turn, a
  <2> QED BY <2>1, <2>2
<1> QED BY <1>2, <1>3, <1>4, <1>5

\* Every step of the machine is the turn that the trace determines.
LEMMA MachineTurns ==
  ASSUME HostErrors = {}, Machine, CanTurn(code, trace, Actual), prog' = prog,
         ReplayEvaluation \/ ReplayBinding \/ ReplaySilent
  PROVE  Machine' /\ Actual' = Turn(code, trace, Actual)
<1>1. CASE ReplayEvaluation
  BY <1>1, EvaluationTurns
<1>2. CASE ReplayBinding
  BY <1>2, BindingTurns
<1>3. CASE ReplaySilent
  <2>1. pos' = pos
    BY <1>3 DEF ReplaySilent
  <2>2. CASE ExecPushTry
    BY <2>1, <2>2, PushTryTurns
  <2>3. CASE ExecReturn
    BY <2>1, <2>3, ReturnTurns
  <2>4. CASE \/ ExecBinaryLogical \/ ExecLabel \/ ExecJump \/ ExecJumpIfFalse
             \/ ExecIterHasNext \/ ExecIterNext
    BY <2>1, <2>4, SilentTurns
  <2> QED BY <1>3, <2>2, <2>3, <2>4 DEF ReplaySilent
<1> QED BY <1>1, <1>2, <1>3

\* A label of emitted code is where the jumps to it lead.
LEMMA LabelAt ==
  ASSUME NEW p, IsTree(p), NEW k, NEW l, Has(Emit(p), k, Label(l))
  PROVE  LabelPos(Emit(p), l) = k
<1> DEFINE c == Emit(p)
<1>1. Verified(c)
  BY EmittedCodeVerifies
<1> HIDE DEF c
<1>2. k \in DOMAIN c /\ c[k].op = "Label" /\ c[k].target = l
  BY DEF Has, c, Label, Instr
<1>3. \A j \in DOMAIN c : c[j].op = "Label" /\ c[j].target = l => j = k
  BY <1>1, <1>2 DEF Verified
<1> QED BY <1>2, <1>3 DEF LabelPos, c

-----------------------------------------------------------------------------
(***************************************************************************)
(* What the machine, started at a, gets to given the trace tr.             *)
(***************************************************************************)

Beyond(live, k) == {h \in live : k < h}

\* It gets to a state in which it still runs.
On(p, tr, a, k, live, last, t, i, seen) ==
  Reaches(Emit(p), tr, a, State(k, live, last, t, i, "running", seen))

\* It gets to where the error e, raised with the handlers live, leaves it.
Off(p, tr, a, k, live, last, t, i, seen, e) ==
  Reaches(Emit(p), tr, a, Threw(State(k, live, last, t, i, "running", 0), e, seen))

\* The next event of the trace is the evaluation of `site`.
AsksFor(tr, seen, site) == seen + 1 \in DOMAIN tr /\ tr[seen + 1].site = site

\* One instruction on the way.
LEMMA Takes ==
  ASSUME NEW p, NEW tr, NEW a, NEW k, NEW live, NEW last, NEW t, NEW i, NEW seen, NEW x,
         On(p, tr, a, k, live, last, t, i, seen), Has(Emit(p), k, x),
         CanTurnOf(Emit(p), tr, x, State(k, live, last, t, i, "running", seen))
  PROVE  Reaches(Emit(p), tr, a,
                 TurnOf(Emit(p), x, tr[seen + 1], State(k, live, last, t, i, "running", seen)))
<1> DEFINE s == State(k, live, last, t, i, "running", seen)
           c == Emit(p)
<1>1. s.pc = k /\ s.result = "running" /\ s.pos = seen
  BY StateIs
<1>2. Reaches(c, tr, a, s) /\ k \in DOMAIN c /\ c[k] = x /\ CanTurnOf(c, tr, x, s)
  BY DEF On, Has
<1> HIDE DEF s, c
<1>3. CanTurn(c, tr, s) /\ Turn(c, tr, s) = TurnOf(c, x, tr[seen + 1], s)
  BY <1>1, <1>2 DEF CanTurn, Turn
<1>4. Reaches(c, tr, a, TurnOf(c, x, tr[seen + 1], s))
  BY <1>2, <1>3, ReachesOn
<1> QED BY <1>4 DEF s, c

\* The instructions that go on to the next position, those that ask first.
LEMMA WentIs ==
  ASSUME NEW k, NEW live, NEW last, NEW t, NEW i, NEW seen, NEW at, NEW t2, NEW i2, NEW seen2
  PROVE  WentTo(State(k, live, last, t, i, "running", seen), at, t2, i2, seen2)
           = State(at, Beyond(live, at), last, t2, i2, "running", seen2)
<1> DEFINE s == State(k, live, last, t, i, "running", seen)
<1>1. s.live = live /\ s.last = last
  BY StateIs
<1> HIDE DEF s
<1>2. WentTo(s, at, t2, i2, seen2) = State(at, Beyond(live, at), last, t2, i2, "running", seen2)
  BY <1>1 DEF WentTo, Beyond
<1> QED BY <1>2 DEF s

\* What an error does depends on the trace no more.
LEMMA ThrewIs ==
  ASSUME NEW k, NEW live, NEW last, NEW t, NEW i, NEW seen, NEW other, NEW e, NEW seen2
  PROVE  Threw(State(k, live, last, t, i, "running", seen), e, seen2)
           = Threw(State(k, live, last, t, i, "running", other), e, seen2)
<1> DEFINE s == State(k, live, last, t, i, "running", seen)
           r == State(k, live, last, t, i, "running", other)
<1>1. s.pc = k /\ s.live = live /\ s.last = last /\ s.temps = t /\ s.iters = i
  BY StateIs
<1>2. r.pc = k /\ r.live = live /\ r.last = last /\ r.temps = t /\ r.iters = i
  BY StateIs
<1> HIDE DEF s, r
<1>3. Threw(s, e, seen2) = Threw(r, e, seen2)
  BY <1>1, <1>2 DEF Threw
<1> QED BY <1>3 DEF s, r

\* The evaluations: go on, or raise the error.
LEMMA OnEval ==
  ASSUME NEW p, NEW tr, NEW a, NEW k, NEW live, NEW last, NEW t, NEW i, NEW seen, NEW site,
         On(p, tr, a, k, live, last, t, i, seen), Has(Emit(p), k, Eval(site)),
         AsksFor(tr, seen, site)
  PROVE  /\ tr[seen + 1].error = NoError =>
              On(p, tr, a, k + 1, Beyond(live, k + 1), last, t, i, seen + 1)
         /\ tr[seen + 1].error # NoError =>
              Off(p, tr, a, k, live, last, t, i, seen + 1, tr[seen + 1].error)
<1> DEFINE s == State(k, live, last, t, i, "running", seen)
           c == Emit(p)
           x == Eval(site)
           e == tr[seen + 1]
<1>1. s.pc = k /\ s.temps = t /\ s.iters = i /\ s.pos = seen
  BY StateIs
<1>2. x.op = "Eval" /\ x.site = site
  BY DEF Eval, Instr
<1>3. /\ WentTo(s, k + 1, t, i, seen + 1)
           = State(k + 1, Beyond(live, k + 1), last, t, i, "running", seen + 1)
      /\ Threw(s, e.error, seen + 1)
           = Threw(State(k, live, last, t, i, "running", 0), e.error, seen + 1)
  BY WentIs, ThrewIs
<1>4. CanTurnOf(c, tr, x, s) => Reaches(c, tr, a, TurnOf(c, x, e, s))
  BY Takes
<1>5. seen + 1 \in DOMAIN tr /\ e.site = site
  BY DEF AsksFor
<1> HIDE DEF s, c, x, e
<1>6. CanTurnOf(c, tr, x, s)
  BY <1>1, <1>2, <1>5 DEF CanTurnOf, e
<1>7. TurnOf(c, x, e, s) = IF e.error # NoError THEN Threw(s, e.error, s.pos + 1)
                           ELSE WentTo(s, s.pc + 1, s.temps, s.iters, s.pos + 1)
  BY <1>2 DEF TurnOf
<1>8. e.error = NoError => Reaches(c, tr, a, WentTo(s, k + 1, t, i, seen + 1))
  BY <1>1, <1>4, <1>6, <1>7
<1>9. e.error # NoError => Reaches(c, tr, a, Threw(s, e.error, seen + 1))
  BY <1>1, <1>4, <1>6, <1>7
<1> QED BY <1>3, <1>8, <1>9 DEF On, Off, c, e

LEMMA OnTest ==
  ASSUME NEW p, NEW tr, NEW a, NEW k, NEW live, NEW last, NEW t, NEW i, NEW seen, NEW site, NEW dst,
         On(p, tr, a, k, live, last, t, i, seen), Has(Emit(p), k, Test(site, dst)),
         AsksFor(tr, seen, site)
  PROVE  /\ tr[seen + 1].error = NoError =>
              On(p, tr, a, k + 1, Beyond(live, k + 1), last, [t EXCEPT ![dst] = tr[seen + 1].value], i,
                 seen + 1)
         /\ tr[seen + 1].error # NoError =>
              Off(p, tr, a, k, live, last, t, i, seen + 1, tr[seen + 1].error)
<1> DEFINE s == State(k, live, last, t, i, "running", seen)
           c == Emit(p)
           x == Test(site, dst)
           e == tr[seen + 1]
           t2 == [t EXCEPT ![dst] = e.value]
<1>1. s.pc = k /\ s.temps = t /\ s.iters = i /\ s.pos = seen
  BY StateIs
<1>2. x.op = "Test" /\ x.site = site /\ x.dst = dst
  BY DEF Test, Instr
<1>3. /\ WentTo(s, k + 1, t2, i, seen + 1)
           = State(k + 1, Beyond(live, k + 1), last, t2, i, "running", seen + 1)
      /\ Threw(s, e.error, seen + 1)
           = Threw(State(k, live, last, t, i, "running", 0), e.error, seen + 1)
  BY WentIs, ThrewIs
<1>4. CanTurnOf(c, tr, x, s) => Reaches(c, tr, a, TurnOf(c, x, e, s))
  BY Takes
<1>5. seen + 1 \in DOMAIN tr /\ e.site = site
  BY DEF AsksFor
<1> HIDE DEF s, c, x, e
<1>6. CanTurnOf(c, tr, x, s)
  BY <1>1, <1>2, <1>5 DEF CanTurnOf, e
<1>7. TurnOf(c, x, e, s) =
        IF e.error # NoError THEN Threw(s, e.error, s.pos + 1)
        ELSE WentTo(s, s.pc + 1, [s.temps EXCEPT ![x.dst] = e.value], s.iters, s.pos + 1)
  BY <1>2 DEF TurnOf
<1>8. e.error = NoError => Reaches(c, tr, a, WentTo(s, k + 1, t2, i, seen + 1))
  BY <1>1, <1>2, <1>4, <1>6, <1>7
<1>9. e.error # NoError => Reaches(c, tr, a, Threw(s, e.error, seen + 1))
  BY <1>1, <1>4, <1>6, <1>7
<1> QED BY <1>3, <1>8, <1>9 DEF On, Off, c, e

LEMMA OnIterStart ==
  ASSUME NEW p, NEW tr, NEW a, NEW k, NEW live, NEW last, NEW t, NEW i, NEW seen, NEW site,
         On(p, tr, a, k, live, last, t, i, seen), Has(Emit(p), k, IterStart(site)),
         AsksFor(tr, seen, site)
  PROVE  /\ tr[seen + 1].error = NoError =>
              On(p, tr, a, k + 1, Beyond(live, k + 1), last, t,
                 StartedWith(i, site, tr[seen + 1].value), seen + 1)
         /\ tr[seen + 1].error # NoError =>
              Off(p, tr, a, k, live, last, t, i, seen + 1, tr[seen + 1].error)
<1> DEFINE s == State(k, live, last, t, i, "running", seen)
           c == Emit(p)
           x == IterStart(site)
           e == tr[seen + 1]
           i2 == StartedWith(i, site, e.value)
<1>1. s.pc = k /\ s.temps = t /\ s.iters = i /\ s.pos = seen
  BY StateIs
<1>2. x.op = "IterStart" /\ x.site = site
  BY DEF IterStart, Instr
<1>3. /\ WentTo(s, k + 1, t, i2, seen + 1)
           = State(k + 1, Beyond(live, k + 1), last, t, i2, "running", seen + 1)
      /\ Threw(s, e.error, seen + 1)
           = Threw(State(k, live, last, t, i, "running", 0), e.error, seen + 1)
  BY WentIs, ThrewIs
<1>4. CanTurnOf(c, tr, x, s) => Reaches(c, tr, a, TurnOf(c, x, e, s))
  BY Takes
<1>5. seen + 1 \in DOMAIN tr /\ e.site = site
  BY DEF AsksFor
<1> HIDE DEF s, c, x, e
<1>6. CanTurnOf(c, tr, x, s)
  BY <1>1, <1>2, <1>5 DEF CanTurnOf, e
<1>7. TurnOf(c, x, e, s) =
        IF e.error # NoError THEN Threw(s, e.error, s.pos + 1)
        ELSE WentTo(s, s.pc + 1, s.temps, StartedWith(s.iters, x.site, e.value), s.pos + 1)
  BY <1>2 DEF TurnOf
<1>8. e.error = NoError => Reaches(c, tr, a, WentTo(s, k + 1, t, i2, seen + 1))
  BY <1>1, <1>2, <1>4, <1>6, <1>7
<1>9. e.error # NoError => Reaches(c, tr, a, Threw(s, e.error, seen + 1))
  BY <1>1, <1>4, <1>6, <1>7
<1> QED BY <1>3, <1>8, <1>9 DEF On, Off, c, e

\* The bindings.
LEMMA OnStoreBinding ==
  ASSUME NEW p, NEW tr, NEW a, NEW k, NEW live, NEW last, NEW t, NEW i, NEW seen, NEW site,
         On(p, tr, a, k, live, last, t, i, seen), Has(Emit(p), k, StoreBinding(site)),
         AsksFor(tr, seen, site), tr[seen + 1].error = NoError, tr[seen + 1].value = t["elem"]
  PROVE  On(p, tr, a, k + 1, Beyond(live, k + 1), last, t, i, seen + 1)
<1> DEFINE s == State(k, live, last, t, i, "running", seen)
           c == Emit(p)
           x == StoreBinding(site)
           e == tr[seen + 1]
<1>1. s.pc = k /\ s.temps = t /\ s.iters = i /\ s.pos = seen
  BY StateIs
<1>2. x.op = "StoreBinding" /\ x.site = site
  BY DEF StoreBinding, Instr
<1>3. WentTo(s, k + 1, t, i, seen + 1)
        = State(k + 1, Beyond(live, k + 1), last, t, i, "running", seen + 1)
  BY WentIs
<1>4. CanTurnOf(c, tr, x, s) => Reaches(c, tr, a, TurnOf(c, x, e, s))
  BY Takes
<1>5. seen + 1 \in DOMAIN tr /\ e.site = site /\ e.error = NoError /\ e.value = t["elem"]
  BY DEF AsksFor
<1> HIDE DEF s, c, x, e
<1>6. CanTurnOf(c, tr, x, s)
  BY <1>1, <1>2, <1>5 DEF CanTurnOf, e
<1>7. TurnOf(c, x, e, s) = WentTo(s, s.pc + 1, s.temps, s.iters, s.pos + 1)
  BY <1>2 DEF TurnOf
<1>8. Reaches(c, tr, a, WentTo(s, k + 1, t, i, seen + 1))
  BY <1>1, <1>4, <1>6, <1>7
<1> QED BY <1>3, <1>8 DEF On, c

\* The instruction that binds the caught error.
LEMMA OnStoreLastError ==
  ASSUME NEW p, NEW tr, NEW a, NEW k, NEW live, NEW last, NEW t, NEW i, NEW seen, NEW site,
         On(p, tr, a, k, live, last, t, i, seen), Has(Emit(p), k, StoreLastError(site)),
         AsksFor(tr, seen, site), last # NoError, tr[seen + 1].error = last,
         tr[seen + 1].value = 0
  PROVE  On(p, tr, a, k + 1, Beyond(live, k + 1), last, t, i, seen + 1)
<1> DEFINE s == State(k, live, last, t, i, "running", seen)
           c == Emit(p)
           x == StoreLastError(site)
           e == tr[seen + 1]
<1>1. s.pc = k /\ s.temps = t /\ s.iters = i /\ s.pos = seen /\ s.last = last
  BY StateIs
<1>2. x.op = "StoreLastError" /\ x.site = site
  BY DEF StoreLastError, Instr
<1>3. WentTo(s, k + 1, t, i, seen + 1)
        = State(k + 1, Beyond(live, k + 1), last, t, i, "running", seen + 1)
  BY WentIs
<1>4. CanTurnOf(c, tr, x, s) => Reaches(c, tr, a, TurnOf(c, x, e, s))
  BY Takes
<1>5. seen + 1 \in DOMAIN tr /\ e.site = site /\ e.error = last /\ e.value = 0
  BY DEF AsksFor
<1> HIDE DEF s, c, x, e
<1>6. CanTurnOf(c, tr, x, s)
  BY <1>1, <1>2, <1>5 DEF CanTurnOf, e
<1>7. TurnOf(c, x, e, s) = WentTo(s, s.pc + 1, s.temps, s.iters, s.pos + 1)
  BY <1>2 DEF TurnOf
<1>8. Reaches(c, tr, a, WentTo(s, k + 1, t, i, seen + 1))
  BY <1>1, <1>4, <1>6, <1>7
<1> QED BY <1>3, <1>8 DEF On, c

\* The silent instructions.
LEMMA OnLabel ==
  ASSUME NEW p, NEW tr, NEW a, NEW k, NEW live, NEW last, NEW t, NEW i, NEW seen, NEW l,
         On(p, tr, a, k, live, last, t, i, seen), Has(Emit(p), k, Label(l))
  PROVE  On(p, tr, a, k + 1, Beyond(live, k + 1), last, t, i, seen)
<1> DEFINE s == State(k, live, last, t, i, "running", seen)
           c == Emit(p)
           x == Label(l)
           e == tr[seen + 1]
<1>1. s.pc = k /\ s.temps = t /\ s.iters = i /\ s.pos = seen
  BY StateIs
<1>2. x.op = "Label"
  BY DEF Label, Instr
<1>3. WentTo(s, k + 1, t, i, seen) = State(k + 1, Beyond(live, k + 1), last, t, i, "running", seen)
  BY WentIs
<1>4. CanTurnOf(c, tr, x, s) => Reaches(c, tr, a, TurnOf(c, x, e, s))
  BY Takes
<1> HIDE DEF s, c, x, e
<1>6. CanTurnOf(c, tr, x, s)
  BY <1>2 DEF CanTurnOf, AskOps
<1>7. TurnOf(c, x, e, s) = WentTo(s, s.pc + 1, s.temps, s.iters, s.pos)
  BY <1>2 DEF TurnOf
<1>8. Reaches(c, tr, a, WentTo(s, k + 1, t, i, seen))
  BY <1>1, <1>4, <1>6, <1>7
<1> QED BY <1>3, <1>8 DEF On, c

\* The jumps.
LEMMA OnJump ==
  ASSUME NEW p, IsTree(p), NEW tr, NEW a, NEW k, NEW live, NEW last, NEW t, NEW i, NEW seen, NEW l,
         NEW to, On(p, tr, a, k, live, last, t, i, seen), Has(Emit(p), k, Jump(l)),
         Has(Emit(p), to, Label(l))
  PROVE  On(p, tr, a, to, Beyond(live, to), last, t, i, seen)
<1> DEFINE s == State(k, live, last, t, i, "running", seen)
           c == Emit(p)
           x == Jump(l)
           e == tr[seen + 1]
<1>1. s.pc = k /\ s.temps = t /\ s.iters = i /\ s.pos = seen
  BY StateIs
<1>2. x.op = "Jump" /\ x.target = l
  BY DEF Jump, Instr
<1>3. WentTo(s, to, t, i, seen) = State(to, Beyond(live, to), last, t, i, "running", seen)
  BY WentIs
<1>4. CanTurnOf(c, tr, x, s) => Reaches(c, tr, a, TurnOf(c, x, e, s))
  BY Takes
<1>5. LabelPos(c, l) = to
  BY LabelAt
<1> HIDE DEF s, c, x, e
<1>6. CanTurnOf(c, tr, x, s)
  BY <1>2 DEF CanTurnOf, AskOps
<1>7. TurnOf(c, x, e, s) = WentTo(s, LabelPos(c, x.target), s.temps, s.iters, s.pos)
  BY <1>2 DEF TurnOf
<1>8. Reaches(c, tr, a, WentTo(s, to, t, i, seen))
  BY <1>1, <1>2, <1>4, <1>5, <1>6, <1>7
<1> QED BY <1>3, <1>8 DEF On, c

LEMMA OnJumpIfFalse ==
  ASSUME NEW p, IsTree(p), NEW tr, NEW a, NEW k, NEW live, NEW last, NEW t, NEW i, NEW seen, NEW l,
         NEW to, On(p, tr, a, k, live, last, t, i, seen), Has(Emit(p), k, JumpIfFalse(l)),
         Has(Emit(p), to, Label(l))
  PROVE  /\ t["cond"] = 0 => On(p, tr, a, to, Beyond(live, to), last, t, i, seen)
         /\ t["cond"] # 0 => On(p, tr, a, k + 1, Beyond(live, k + 1), last, t, i, seen)
<1> DEFINE s == State(k, live, last, t, i, "running", seen)
           c == Emit(p)
           x == JumpIfFalse(l)
           e == tr[seen + 1]
<1>1. s.pc = k /\ s.temps = t /\ s.iters = i /\ s.pos = seen
  BY StateIs
<1>2. x.op = "JumpIfFalse" /\ x.target = l /\ x.dst = "cond"
  BY DEF JumpIfFalse, Instr
<1>3. /\ WentTo(s, to, t, i, seen) = State(to, Beyond(live, to), last, t, i, "running", seen)
      /\ WentTo(s, k + 1, t, i, seen) = State(k + 1, Beyond(live, k + 1), last, t, i, "running", seen)
  BY WentIs
<1>4. CanTurnOf(c, tr, x, s) => Reaches(c, tr, a, TurnOf(c, x, e, s))
  BY Takes
<1>5. LabelPos(c, l) = to
  BY LabelAt
<1> HIDE DEF s, c, x, e
<1>6. CanTurnOf(c, tr, x, s)
  BY <1>2 DEF CanTurnOf, AskOps
<1>7. TurnOf(c, x, e, s) = WentTo(s, IF s.temps[x.dst] = 0 THEN LabelPos(c, x.target) ELSE s.pc + 1,
                                  s.temps, s.iters, s.pos)
  BY <1>2 DEF TurnOf
<1>8. TurnOf(c, x, e, s) = WentTo(s, IF t["cond"] = 0 THEN to ELSE k + 1, t, i, seen)
  BY <1>1, <1>2, <1>5, <1>7
<1>9. /\ t["cond"] = 0 => Reaches(c, tr, a, WentTo(s, to, t, i, seen))
      /\ t["cond"] # 0 => Reaches(c, tr, a, WentTo(s, k + 1, t, i, seen))
  BY <1>4, <1>6, <1>8
<1> QED BY <1>3, <1>9 DEF On, c

\* The handler of a try body becomes the innermost.
LEMMA OnPushTry ==
  ASSUME NEW p, IsTree(p), NEW tr, NEW a, NEW k, NEW live, NEW last, NEW t, NEW i, NEW seen, NEW l,
         NEW to, On(p, tr, a, k, live, last, t, i, seen), Has(Emit(p), k, PushTry(l)),
         Has(Emit(p), to, Label(l)), \A h \in live : to < h
  PROVE  On(p, tr, a, k + 1, Beyond(live \cup {to}, k + 1), last, t, i, seen)
<1> DEFINE s == State(k, live, last, t, i, "running", seen)
           c == Emit(p)
           x == PushTry(l)
           e == tr[seen + 1]
<1>1. s.pc = k /\ s.temps = t /\ s.iters = i /\ s.pos = seen /\ s.live = live /\ s.last = last
  BY StateIs
<1>2. x.op = "PushTry" /\ x.target = l
  BY DEF PushTry, Instr
<1>4. CanTurnOf(c, tr, x, s) => Reaches(c, tr, a, TurnOf(c, x, e, s))
  BY Takes
<1>5. LabelPos(c, l) = to
  BY LabelAt
<1> HIDE DEF s, c, x, e
<1>6. CanTurnOf(c, tr, x, s)
  BY <1>1, <1>2, <1>5 DEF CanTurnOf, AskOps
<1>7. TurnOf(c, x, e, s)
        = State(s.pc + 1, {h \in s.live \cup {LabelPos(c, x.target)} : s.pc + 1 < h}, s.last,
                s.temps, s.iters, "running", s.pos)
  BY <1>2 DEF TurnOf
<1>8. TurnOf(c, x, e, s)
        = State(k + 1, Beyond(live \cup {to}, k + 1), last, t, i, "running", seen)
  BY <1>1, <1>2, <1>5, <1>7 DEF Beyond
<1> QED BY <1>4, <1>6, <1>8 DEF On, c

\* An operator on two operands.
LEMMA OnLogical ==
  ASSUME NEW p, NEW tr, NEW a, NEW k, NEW live, NEW last, NEW t, NEW i, NEW seen,
         NEW op \in {"and", "or"},
         On(p, tr, a, k, live, last, t, i, seen), Has(Emit(p), k, BinaryLogical(op))
  PROVE  On(p, tr, a, k + 1, Beyond(live, k + 1), last, [t EXCEPT !["cond"] = BothHold(op, t)], i, seen)
<1> DEFINE s == State(k, live, last, t, i, "running", seen)
           c == Emit(p)
           x == BinaryLogical(op)
           e == tr[seen + 1]
           t2 == [t EXCEPT !["cond"] = BothHold(op, t)]
<1>1. s.pc = k /\ s.temps = t /\ s.iters = i /\ s.pos = seen
  BY StateIs
<1>2. x.op = op /\ x.dst = "cond"
  BY DEF BinaryLogical, Instr
<1>3. WentTo(s, k + 1, t2, i, seen) = State(k + 1, Beyond(live, k + 1), last, t2, i, "running", seen)
  BY WentIs
<1>4. CanTurnOf(c, tr, x, s) => Reaches(c, tr, a, TurnOf(c, x, e, s))
  BY Takes
<1> HIDE DEF s, c, x, e
<1>6. CanTurnOf(c, tr, x, s)
  BY <1>2 DEF CanTurnOf, AskOps
<1>7. TurnOf(c, x, e, s)
        = WentTo(s, s.pc + 1, [s.temps EXCEPT ![x.dst] = BothHold(x.op, s.temps)], s.iters, s.pos)
  BY <1>2 DEF TurnOf
<1>8. Reaches(c, tr, a, WentTo(s, k + 1, t2, i, seen))
  BY <1>1, <1>2, <1>4, <1>6, <1>7
<1> QED BY <1>3, <1>8 DEF On, c

\* The instructions on an iterator.
LEMMA OnIterHasNext ==
  ASSUME NEW p, NEW tr, NEW a, NEW k, NEW live, NEW last, NEW t, NEW i, NEW seen, NEW site,
         On(p, tr, a, k, live, last, t, i, seen), Has(Emit(p), k, IterHasNext(site)),
         site \in DOMAIN i
  PROVE  On(p, tr, a, k + 1, Beyond(live, k + 1), last,
            [t EXCEPT !["cond"] = IF i[site].cursor < i[site].len THEN 1 ELSE 0], i, seen)
<1> DEFINE s == State(k, live, last, t, i, "running", seen)
           c == Emit(p)
           x == IterHasNext(site)
           e == tr[seen + 1]
           t2 == [t EXCEPT !["cond"] = IF i[site].cursor < i[site].len THEN 1 ELSE 0]
<1>1. s.pc = k /\ s.temps = t /\ s.iters = i /\ s.pos = seen
  BY StateIs
<1>2. x.op = "IterHasNext" /\ x.dst = "cond" /\ x.site = site
  BY DEF IterHasNext, Instr
<1>3. WentTo(s, k + 1, t2, i, seen) = State(k + 1, Beyond(live, k + 1), last, t2, i, "running", seen)
  BY WentIs
<1>4. CanTurnOf(c, tr, x, s) => Reaches(c, tr, a, TurnOf(c, x, e, s))
  BY Takes
<1> HIDE DEF s, c, x, e
<1>6. CanTurnOf(c, tr, x, s)
  BY <1>1, <1>2 DEF CanTurnOf, AskOps
<1>7. TurnOf(c, x, e, s)
        = WentTo(s, s.pc + 1,
                 [s.temps EXCEPT ![x.dst] = IF s.iters[x.site].cursor < s.iters[x.site].len
                                            THEN 1 ELSE 0], s.iters, s.pos)
  BY <1>2 DEF TurnOf
<1>8. Reaches(c, tr, a, WentTo(s, k + 1, t2, i, seen))
  BY <1>1, <1>2, <1>4, <1>6, <1>7
<1> QED BY <1>3, <1>8 DEF On, c

LEMMA OnIterNext ==
  ASSUME NEW p, NEW tr, NEW a, NEW k, NEW live, NEW last, NEW t, NEW i, NEW seen, NEW site,
         On(p, tr, a, k, live, last, t, i, seen), Has(Emit(p), k, IterNext(site)),
         site \in DOMAIN i, ~ (i[site].cursor >= i[site].len)
  PROVE  On(p, tr, a, k + 1, Beyond(live, k + 1), last, [t EXCEPT !["elem"] = i[site].cursor + 1],
            [i EXCEPT ![site].cursor = @ + 1], seen)
<1> DEFINE s == State(k, live, last, t, i, "running", seen)
           c == Emit(p)
           x == IterNext(site)
           e == tr[seen + 1]
           t2 == [t EXCEPT !["elem"] = i[site].cursor + 1]
           i2 == [i EXCEPT ![site].cursor = @ + 1]
<1>1. s.pc = k /\ s.temps = t /\ s.iters = i /\ s.pos = seen
  BY StateIs
<1>2. x.op = "IterNext" /\ x.dst = "elem" /\ x.site = site
  BY DEF IterNext, Instr
<1>3. WentTo(s, k + 1, t2, i2, seen) = State(k + 1, Beyond(live, k + 1), last, t2, i2, "running", seen)
  BY WentIs
<1>4. CanTurnOf(c, tr, x, s) => Reaches(c, tr, a, TurnOf(c, x, e, s))
  BY Takes
<1> HIDE DEF s, c, x, e
<1>6. CanTurnOf(c, tr, x, s)
  BY <1>1, <1>2 DEF CanTurnOf, AskOps
<1>7. TurnOf(c, x, e, s)
        = WentTo(s, s.pc + 1, [s.temps EXCEPT ![x.dst] = s.iters[x.site].cursor + 1],
                 [s.iters EXCEPT ![x.site].cursor = @ + 1], s.pos)
  BY <1>2 DEF TurnOf
<1>8. Reaches(c, tr, a, WentTo(s, k + 1, t2, i2, seen))
  BY <1>1, <1>2, <1>4, <1>6, <1>7
<1> QED BY <1>3, <1>8 DEF On, c

\* The machine at a Return, with nothing pending, returns.
LEMMA OnReturn ==
  ASSUME NEW p, NEW tr, NEW a, NEW k, NEW live, NEW last, NEW t, NEW i, NEW seen,
         On(p, tr, a, k, live, last, t, i, seen), Has(Emit(p), k, Return)
  PROVE  Reaches(Emit(p), tr, a, State(k, live, last, t, i, "returned", seen))
<1> DEFINE s == State(k, live, last, t, i, "running", seen)
           c == Emit(p)
           x == Return
           e == tr[seen + 1]
<1>1. s.pc = k /\ s.temps = t /\ s.iters = i /\ s.pos = seen /\ s.live = live /\ s.last = last
  BY StateIs
<1>2. x.op = "Return"
  BY DEF Return, Instr
<1>4. CanTurnOf(c, tr, x, s) => Reaches(c, tr, a, TurnOf(c, x, e, s))
  BY Takes
<1> HIDE DEF s, c, x, e
<1>6. CanTurnOf(c, tr, x, s)
  BY <1>2 DEF CanTurnOf, AskOps
<1>7. TurnOf(c, x, e, s) = Ended(s)
  BY <1>2 DEF TurnOf
<1>8. Ended(s) = State(k, live, last, t, i, "returned", seen)
  BY <1>1 DEF Ended
<1> QED BY <1>4, <1>6, <1>7, <1>8 DEF c

-----------------------------------------------------------------------------
(***************************************************************************)
(* Where the machine gets with the trace that the interpreter has left so  *)
(* far, when the interpreter is at ct with the flow f.                     *)
(***************************************************************************)

ForSite(n) == <<n, "for", 0>>

\* Every iterator started is where the loop is, and those of the loops around
\* block s of n are started.
InStep(p, n, s, it, i) ==
  /\ \A x \in Stmts(p) : ForSite(x) \in DOMAIN i => i[ForSite(x)] = it[x]
  /\ \A x \in ForsIn(p, n, s) : ForSite(x) \in DOMAIN i

\* The machine runs in block s of n, at k, with nothing of the trace left.
Stands(p, tr, a, n, s, k, it, last, t, i) ==
  /\ DOMAIN t = Temps
  /\ InStep(p, n, s, it, i)
  /\ On(p, tr, a, k, HandlersIn(p, n, s), last, t, i, Len(tr))

PlaceAt(p, ct) ==
  CASE ct.at = "test" -> TestAt(p, ct.node, ct.arm)
    [] ct.at = "rhs"  -> TestAt(p, ct.node, ct.arm) + 1
    [] ct.at = "bind" -> StartAt(p, ct.node) + 1
    [] OTHER          -> Here(p, ct)

Calm(p, tr, a, ct, l, it) ==
  \E last, t, i :
    /\ Stands(p, tr, a, BlockAt(p, ct)[1], BlockAt(p, ct)[2], PlaceAt(p, ct), it, last, t, i)
    /\ ct.at = "rhs" => t["lhs"] = l /\ p.test[ct.node] # "plain"
    /\ ct.at = "bind" => ForSite(ct.node) \in DOMAIN i
    /\ ct.at \in {"test", "rhs"} /\ p.kind[ct.node] = "while" => ct.arm = 1

\* The flows that leave block s of n, and where the machine is by then.
Failing(p, tr, a, n, s, er, it) ==
  \E last, t, i, k :
    /\ DOMAIN t = Temps /\ InStep(p, n, s, it, i)
    /\ Off(p, tr, a, k, HandlersIn(p, n, s), last, t, i, Len(tr), er)

Leaving(p, tr, a, n, s, f, it) ==
  LET loop == LoopIn(p, n, s) IN
  /\ loop # 0
  /\ \E last, t, i :
       /\ DOMAIN t = Temps /\ InStep(p, n, s, it, i)
       /\ On(p, tr, a, IF f = "break" THEN EndAt(p, loop) ELSE HeadAt(p, loop),
             HandlersIn(p, p.parent[loop], p.slot[loop]), last, t, i, Len(tr))

Returning(p, tr, a, n, s, it) ==
  /\ p.unit = "function"
  /\ \E last, t, i, k :
       /\ DOMAIN t = Temps /\ InStep(p, n, s, it, i)
       /\ On(p, tr, a, k, {}, last, t, i, Len(tr))
       /\ Holds(Emit(p), k, EmitReturnFromOutputs(p))

Sim(p, tr, a, ct, f, er, l, it) ==
  /\ f = "none" => Calm(p, tr, a, ct, l, it)
  /\ f # "none" => ct.at = "end"
  /\ f = "error" => Failing(p, tr, a, ct.node, ct.arm, er, it)
  /\ f \in {"break", "continue"} => Leaving(p, tr, a, ct.node, ct.arm, f, it)
  /\ f = "return" => Returning(p, tr, a, ct.node, ct.arm, it)

\* The parts of a place.
LEMMA AtIs ==
  ASSUME NEW x, NEW n, NEW i
  PROVE  At(x, n, i).at = x /\ At(x, n, i).node = n /\ At(x, n, i).arm = i
  BY DEF At

\* The loops around a block are around what is in it.
LEMMA ForsInside ==
  ASSUME NEW p, IsTree(p), NEW n \in Stmts(p), NEW s, NEW x
  PROVE  x \in ForsIn(p, n, s) <=> \/ x \in ForsIn(p, p.parent[n], p.slot[n])
                                   \/ x = n /\ s = 1 /\ p.kind[n] = "for"
<1> DEFINE B == Bodies(p, n, s)
           D == Bodies(p, p.parent[n], p.slot[n])
<1>1. B = D \cup IF s = 1 THEN {n} ELSE {}
  BY BodiesStep
<1>2. x \in ForsIn(p, n, s) <=> x \in B /\ p.kind[x] = "for"
  BY DEF ForsIn
<1>3. x \in ForsIn(p, p.parent[n], p.slot[n]) <=> x \in D /\ p.kind[x] = "for"
  BY DEF ForsIn
<1> HIDE DEF B, D
<1> QED BY <1>1, <1>2, <1>3

\* Iterators in step around a statement and inside it.
LEMMA InStepOut ==
  ASSUME NEW p, IsTree(p), NEW n \in Stmts(p), NEW s, NEW it, NEW i, InStep(p, n, s, it, i)
  PROVE  InStep(p, p.parent[n], p.slot[n], it, i)
  BY ForsInside DEF InStep

LEMMA InStepIn ==
  ASSUME NEW p, IsTree(p), NEW n \in Stmts(p), NEW s, NEW it, NEW i,
         InStep(p, p.parent[n], p.slot[n], it, i),
         p.kind[n] = "for" /\ s = 1 => ForSite(n) \in DOMAIN i
  PROVE  InStep(p, n, s, it, i)
  BY ForsInside DEF InStep

\* Between two statements of a block.
LEMMA SimBetween ==
  ASSUME NEW p, IsTree(p), NEW tr, NEW a, NEW ct, NEW n, NEW s, NEW k, NEW er, NEW l, NEW it,
         NEW last, NEW t, NEW i,
         Between(p, ct, n, s, k), Stands(p, tr, a, n, s, k, it, last, t, i)
  PROVE  Sim(p, tr, a, ct, "none", er, l, it)
<1>1. /\ ct.at \in {"start", "end"}
      /\ BlockAt(p, ct)[1] = n /\ BlockAt(p, ct)[2] = s
      /\ Here(p, ct) = k
  <2>1. Here(p, ct) = k
    BY DEF Between
  <2>2. CASE ct = At("end", n, s)
    <3>1. ct.at = "end" /\ ct.node = n /\ ct.arm = s
      BY <2>2, AtIs
    <3> QED BY <2>1, <3>1 DEF BlockAt
  <2>3. CASE \E m \in Members(p, n, s) : ct = At("start", m, 0)
    <3>1. PICK m \in Members(p, n, s) : ct = At("start", m, 0)
      BY <2>3
    <3>2. ct.at = "start" /\ ct.node = m
      BY <3>1, AtIs
    <3>3. p.parent[m] = n /\ p.slot[m] = s
      BY DEF Members
    <3> QED BY <2>1, <3>2, <3>3 DEF BlockAt
  <2> QED BY <2>2, <2>3 DEF Between
<1>2. PlaceAt(p, ct) = k
  BY <1>1 DEF PlaceAt
<1>3. Stands(p, tr, a, BlockAt(p, ct)[1], BlockAt(p, ct)[2], PlaceAt(p, ct), it, last, t, i)
  BY <1>1, <1>2
<1>4. Calm(p, tr, a, ct, l, it)
  <2>1. ct.at # "rhs" /\ ct.at # "bind" /\ ct.at \notin {"test", "rhs"}
    BY <1>1
  <2> QED BY <1>3, <2>1 DEF Calm
<1> QED BY <1>4 DEF Sim

\* Entering a block.
LEMMA SimEnter ==
  ASSUME IsTree(prog), NEW tr, NEW a, NEW n, NEW s, IsBlock(prog, n, s), NEW er, NEW l, NEW it,
         NEW last, NEW t, NEW i, Stands(prog, tr, a, n, s, InAt(prog, n, s), it, last, t, i)
  PROVE  Sim(prog, tr, a, Enter(n, s), "none", er, l, it)
<1>1. Between(prog, Enter(n, s), n, s, InAt(prog, n, s))
  BY EnterBetween
<1> DEFINE ct == Enter(n, s)
           p == prog
<1> HIDE DEF ct, p
<1>2. IsTree(p) /\ Between(p, ct, n, s, InAt(p, n, s))
      /\ Stands(p, tr, a, n, s, InAt(p, n, s), it, last, t, i)
  BY <1>1 DEF ct, p
<1>3. Sim(p, tr, a, ct, "none", er, l, it)
  BY <1>2, SimBetween
<1> QED BY <1>3 DEF ct, p

\* Going on behind a statement.
LEMMA SimAfter ==
  ASSUME IsTree(prog), NEW tr, NEW a, NEW n \in Stmts(prog), NEW er, NEW l, NEW it,
         NEW last, NEW t, NEW i,
         Stands(prog, tr, a, prog.parent[n], prog.slot[n], StopAt(prog, n), it, last, t, i)
  PROVE  Sim(prog, tr, a, After(n), "none", er, l, it)
<1>1. Between(prog, After(n), prog.parent[n], prog.slot[n], StopAt(prog, n))
  BY AfterBetween
<1> DEFINE ct == After(n)
           p == prog
           q == p.parent[n]
           r == p.slot[n]
           k == StopAt(p, n)
<1> HIDE DEF ct, p, q, r, k
<1>2. IsTree(p) /\ Between(p, ct, q, r, k) /\ Stands(p, tr, a, q, r, k, it, last, t, i)
  BY <1>1 DEF ct, p, q, r, k
<1>3. Sim(p, tr, a, ct, "none", er, l, it)
  BY <1>2, SimBetween
<1> QED BY <1>3 DEF ct, p

\* Leaving a block with an error.
LEMMA SimFails ==
  ASSUME NEW p, NEW tr, NEW a, NEW n, NEW s, NEW er, NEW l, NEW it, NEW last, NEW t, NEW i, NEW k,
         DOMAIN t = Temps, InStep(p, n, s, it, i),
         Off(p, tr, a, k, HandlersIn(p, n, s), last, t, i, Len(tr), er)
  PROVE  Sim(p, tr, a, At("end", n, s), "error", er, l, it)
<1>1. Failing(p, tr, a, n, s, er, it)
  BY DEF Failing
<1> QED BY <1>1, AtIs DEF Sim

\* Handing on what leaves a block to the block around it.
LEMMA SimOut ==
  ASSUME NEW p, IsTree(p), NEW tr, NEW a, NEW n \in Stmts(p), NEW s \in Slots(p.kind[n]),
         NEW f, NEW er, NEW l, NEW it, f \in {"error", "return", "break", "continue"},
         ~ (p.kind[n] = "try" /\ s = 1 /\ f = "error"),
         f \in {"break", "continue"} => p.kind[n] \notin Loops,
         Sim(p, tr, a, At("end", n, s), f, er, l, it)
  PROVE  Sim(p, tr, a, At("end", p.parent[n], p.slot[n]), f, er, l, it)
<1> DEFINE q == p.parent[n]
           r == p.slot[n]
           ct == At("end", n, s)
           cu == At("end", q, r)
<1>1. /\ ct.at = "end" /\ ct.node = n /\ ct.arm = s /\ cu.at = "end" /\ cu.node = q /\ cu.arm = r
  BY AtIs
<1>2. \A it2, i : InStep(p, n, s, it2, i) => InStep(p, q, r, it2, i)
  BY InStepOut
<1>3. ~ (p.kind[n] = "try" /\ s = 1) => HandlersIn(p, n, s) = HandlersIn(p, q, r)
  BY HandlersOutside
<1>4. p.kind[n] \notin Loops => LoopIn(p, n, s) = LoopIn(p, q, r)
  BY LoopInIs
<1> HIDE DEF q, r, ct, cu
<1>5. /\ f = "error" => Failing(p, tr, a, n, s, er, it)
      /\ f \in {"break", "continue"} => Leaving(p, tr, a, n, s, f, it)
      /\ f = "return" => Returning(p, tr, a, n, s, it)
  BY <1>1 DEF Sim, ct
<1>6. f = "error" => Failing(p, tr, a, q, r, er, it)
  BY <1>2, <1>3, <1>5 DEF Failing
<1>7. f \in {"break", "continue"} => Leaving(p, tr, a, q, r, f, it)
  BY <1>2, <1>4, <1>5 DEF Leaving
<1>8. f = "return" => Returning(p, tr, a, q, r, it)
  BY <1>2, <1>5 DEF Returning
<1>9. Sim(p, tr, a, cu, f, er, l, it)
  BY <1>1, <1>6, <1>7, <1>8 DEF Sim
<1> QED BY <1>9 DEF cu, q, r

\* An evaluation recorded is the next event of the machine, and what it has
\* been through stays as it is.
LEMMA RecordIs ==
  ASSUME InterpTypeOK, NEW site, NEW o, Record(site, o)
  PROVE  /\ Len(trace') = Len(trace) + 1 /\ Len(trace) \in Nat
         /\ AsksFor(trace', Len(trace), site)
         /\ trace'[Len(trace) + 1].error = o.error
         /\ trace'[Len(trace) + 1].value = o.value
         /\ \A x \in DOMAIN trace : x \in DOMAIN trace' /\ trace'[x] = trace[x]
<1> DEFINE ev == [site |-> site, error |-> o.error, value |-> o.value, host |-> o.host]
           n == Len(trace)
           S == Events(prog) \cup {ev}
<1>1. trace' = Append(trace, ev)
  BY DEF Record
<1>2. ev.site = site /\ ev.error = o.error /\ ev.value = o.value
  OBVIOUS
<1>3. trace \in Seq(Events(prog))
  BY DEF InterpTypeOK
<1> HIDE DEF ev
<1>4. n \in Nat /\ Len(trace') = n + 1 /\ DOMAIN trace = 1 .. n /\ DOMAIN trace' = 1 .. n + 1
      /\ trace'[n + 1] = ev /\ \A x \in 1 .. n : trace'[x] = trace[x]
  BY <1>1, <1>3
<1>5. n + 1 \in 1 .. n + 1 /\ \A x \in 1 .. n : x \in 1 .. n + 1
  BY <1>4
<1> QED BY <1>2, <1>4, <1>5 DEF AsksFor

\* A longer trace keeps what was reached.
LEMMA OnLonger ==
  ASSUME NEW p, NEW tr, NEW longer, \A x \in DOMAIN tr : x \in DOMAIN longer /\ longer[x] = tr[x],
         NEW a, NEW k, NEW live, NEW last, NEW t, NEW i, NEW seen,
         On(p, tr, a, k, live, last, t, i, seen)
  PROVE  On(p, longer, a, k, live, last, t, i, seen)
  BY ReachesLonger DEF On

\* Without figure callbacks that fail nothing is pending.
LEMMA NothingHeard ==
  ASSUME HostErrors = {}, InterpTypeOK
  PROVE  /\ queue = NoError
         /\ \A S : \A o \in Values(S) : Heard(o) = NoError /\ (o.error = NoError => o.value \in S)
<1>1. queue = NoError
  BY DEF InterpTypeOK, FlowOK
<1>2. ASSUME NEW S, NEW o \in Values(S)
      PROVE  Heard(o) = NoError /\ (o.error = NoError => o.value \in S)
  <2>1. o.host = NoError
    BY DEF Values
  <2>2. o.error = NoError => o.value \in S
    BY InterpreterAssumption DEF Values
  <2> QED BY <1>1, <2>1, <2>2 DEF Heard
<1> QED BY <1>1, <1>2

\* A statement is done, with no callback pending.
LEMMA CompleteIs ==
  ASSUME NEW n, NEW f, Complete(n, f, NoError)
  PROVE  /\ error' = error /\ flow' = f
         /\ f = "none" => ctl' = After(n)
         /\ f # "none" => ctl' = At("end", prog.parent[n], prog.slot[n])
  BY DEF Complete, Quit, Leave

\* With none pending it does not matter how a statement returns.
LEMMA QuitIs ==
  ASSUME NEW n, NEW f, Quit(n, f, NoError)
  PROVE  Complete(n, f, NoError)
  BY DEF Complete, Quit

\* The handlers that a position inside a statement, or behind it, leaves.
LEMMA BeyondStays ==
  ASSUME NEW p, IsTree(p), NEW n \in Stmts(p), NEW k \in Nat, k <= StopAt(p, n)
  PROVE  Beyond(HandlersIn(p, p.parent[n], p.slot[n]), k) = HandlersIn(p, p.parent[n], p.slot[n])
<1> DEFINE q == p.parent[n]
           r == p.slot[n]
           b == OutAt(p, q, r)
           d == StopAt(p, n)
<1>1. IsBlock(p, q, r)
  BY ParentIsBlock
<1>2. d \in Nat /\ d <= b
  BY StatementSpan
<1>3. b \in Nat
  BY <1>1, BlockSpan
<1> HIDE DEF q, r, b, d
<1>4. k <= b
  BY <1>2, <1>3 DEF d
<1>5. {h \in HandlersIn(p, q, r) : k < h} = HandlersIn(p, q, r)
  BY <1>1, <1>4, HandlersStay DEF b
<1> QED BY <1>5 DEF Beyond, q, r

\* Inside a block its handlers stay, behind it that of its own try goes.
LEMMA BeyondInside ==
  ASSUME NEW p, IsTree(p), NEW n, NEW s, IsBlock(p, n, s), NEW k \in Nat, k <= OutAt(p, n, s)
  PROVE  Beyond(HandlersIn(p, n, s), k) = HandlersIn(p, n, s)
  BY HandlersStay DEF Beyond

LEMMA BeyondDrops ==
  ASSUME NEW p, IsTree(p), NEW n \in Stmts(p), NEW s \in Slots(p.kind[n]),
         NEW k \in Nat, p.kind[n] = "try" /\ s = 1 => CatchAt(p, n) <= k,
         k <= StopAt(p, n)
  PROVE  Beyond(HandlersIn(p, n, s), k) = HandlersIn(p, p.parent[n], p.slot[n])
  BY HandlersDrop DEF Beyond

\* What a failed evaluation does, in either engine.
LEMMA SimRaises ==
  ASSUME HostErrors = {}, InterpTypeOK, NEW a, NEW n \in Stmts(prog), NEW o, Fails(n, o),
         prog' = prog, NEW last, NEW t, NEW i, NEW k,
         DOMAIN t = Temps, InStep(prog, prog.parent[n], prog.slot[n], iter', i),
         Off(prog, trace', a, k, HandlersIn(prog, prog.parent[n], prog.slot[n]), last, t, i,
             Len(trace'), o.error)
  PROVE  Sim(prog, trace', a, ctl', flow', error', lhs', iter')
<1>1. flow' = "error" /\ ctl' = At("end", prog.parent[n], prog.slot[n]) /\ error' = o.error
  BY DEF Fails, Leave
<1> DEFINE q == prog.parent[n]
           r == prog.slot[n]
           tr == trace'
           it == iter'
           l == lhs'
           e == o.error
           p == prog
<1> HIDE DEF q, r, tr, it, l, e, p
<1>2. Off(p, tr, a, k, HandlersIn(p, q, r), last, t, i, Len(tr), e) /\ InStep(p, q, r, it, i)
  BY DEF q, r, tr, it, e, p
<1>3. Sim(p, tr, a, At("end", q, r), "error", e, l, it)
  BY <1>2, SimFails
<1> QED BY <1>1, <1>3 DEF q, r, tr, it, l, e, p

\* A statement at its start, in either engine.
LEMMA AtStart ==
  ASSUME IsTree(prog), NEW a, NEW n \in Stmts(prog), ctl = At("start", n, 0),
         Sim(prog, trace, a, ctl, flow, error, lhs, iter)
  PROVE  \E last, t, i :
           Stands(prog, trace, a, prog.parent[n], prog.slot[n], StartAt(prog, n), iter, last, t, i)
<1>1. ctl.at = "start" /\ ctl.node = n
  BY AtIs
<1>2. flow = "none"
  BY <1>1 DEF Sim
<1>3. Calm(prog, trace, a, ctl, lhs, iter)
  BY <1>2 DEF Sim
<1>4. BlockAt(prog, ctl)[1] = prog.parent[n] /\ BlockAt(prog, ctl)[2] = prog.slot[n]
  BY <1>1 DEF BlockAt
<1>5. PlaceAt(prog, ctl) = StartAt(prog, n)
  BY <1>1 DEF PlaceAt, Here
<1> QED BY <1>3, <1>4, <1>5 DEF Calm

\* The end of a block, in either engine.
LEMMA AtEnd ==
  ASSUME NEW a, NEW n, NEW s, ctl = At("end", n, s),
         Sim(prog, trace, a, ctl, flow, error, lhs, iter)
  PROVE  /\ flow = "none" => \E last, t, i :
               Stands(prog, trace, a, n, s, OutAt(prog, n, s), iter, last, t, i)
         /\ flow = "error" => Failing(prog, trace, a, n, s, error, iter)
         /\ flow \in {"break", "continue"} => Leaving(prog, trace, a, n, s, flow, iter)
         /\ flow = "return" => Returning(prog, trace, a, n, s, iter)
<1>1. ctl.at = "end" /\ ctl.node = n /\ ctl.arm = s
  BY AtIs
<1>2. BlockAt(prog, ctl)[1] = n /\ BlockAt(prog, ctl)[2] = s
  BY <1>1 DEF BlockAt
<1>3. PlaceAt(prog, ctl) = OutAt(prog, n, s)
  BY <1>1 DEF PlaceAt, Here
<1>4. flow = "none" => Calm(prog, trace, a, ctl, lhs, iter)
  BY DEF Sim
<1>5. flow = "none" => \E last, t, i :
               Stands(prog, trace, a, n, s, OutAt(prog, n, s), iter, last, t, i)
  BY <1>2, <1>3, <1>4 DEF Calm
<1> QED BY <1>1, <1>5 DEF Sim

\* What the code is, at a statement of the tree.
LEMMA ActFrame ==
  ASSUME NEW p, IsTree(p), NEW n \in Stmts(p), p.kind[n] = "act"
  PROVE  Has(Emit(p), StartAt(p, n), Eval(<<n, "act", 0>>)) /\ StopAt(p, n) = StartAt(p, n) + 1
<1> DEFINE c == Emit(p)
           b == StartAt(p, n)
           k == FrameOf(p, n)
<1>1. Frame(p, c, n, b, k)
  BY FrameIs
<1> HIDE DEF c, b, k
<1>2. Has(c, b, Eval(<<n, "act", 0>>)) /\ b + Len(Code(p, n)) = b + 1
  BY <1>1 DEF Frame
<1> QED BY <1>2 DEF c, b, StopAt

\* The machine, at the same place with an event more.
LEMMA StandsLonger ==
  ASSUME InterpTypeOK, NEW site, NEW o, Record(site, o), NEW p, NEW a, NEW n, NEW s, NEW k, NEW it,
         NEW last, NEW t, NEW i, Stands(p, trace, a, n, s, k, it, last, t, i)
  PROVE  On(p, trace', a, k, HandlersIn(p, n, s), last, t, i, Len(trace))
<1> DEFINE tr == trace
           longer == trace'
           H == HandlersIn(p, n, s)
           m == Len(trace)
<1>1. \A x \in DOMAIN tr : x \in DOMAIN longer /\ longer[x] = tr[x]
  BY RecordIs
<1>2. On(p, tr, a, k, H, last, t, i, m)
  BY DEF Stands
<1> HIDE DEF tr, longer, H, m
<1>3. On(p, longer, a, k, H, last, t, i, m)
  BY <1>1, <1>2, OnLonger
<1> QED BY <1>3 DEF longer, H, m

\* A statement that is one evaluation, in either engine.
LEMMA SimDoAct ==
  ASSUME HostErrors = {}, InterpTypeOK, NEW a, NEW n \in Stmts(prog), NEW o \in Values({0}),
         DoAct(n, o), Sim(prog, trace, a, ctl, flow, error, lhs, iter)
  PROVE  Sim(prog, trace', a, ctl', flow', error', lhs', iter')
<1> DEFINE p == prog
           q == prog.parent[n]
           r == prog.slot[n]
           b == StartAt(prog, n)
           H == HandlersIn(prog, q, r)
           site == <<n, "act", 0>>
           m == Len(trace)
<1>1. IsTree(prog)
  BY DEF InterpTypeOK
<1>2. /\ ctl = At("start", n, 0) /\ prog.kind[n] = "act" /\ Record(site, o)
      /\ prog' = prog /\ iter' = iter
      /\ \/ Fails(n, o)
         \/ /\ o.error = NoError
            /\ Complete(n, "none", Heard(o)) \/ Quit(n, "none", Heard(o))
  BY DEF DoAct, Starts
<1>3. PICK last, t, i : Stands(prog, trace, a, q, r, b, iter, last, t, i)
  BY <1>1, <1>2, AtStart
<1>4. DOMAIN t = Temps /\ InStep(prog, q, r, iter, i)
  BY <1>3 DEF Stands
<1>5. On(prog, trace', a, b, H, last, t, i, m)
  BY <1>2, <1>3, StandsLonger
<1>6. /\ Len(trace') = m + 1 /\ AsksFor(trace', m, site)
      /\ trace'[m + 1].error = o.error
  BY <1>2, RecordIs
<1>7. Has(Emit(prog), b, Eval(site)) /\ StopAt(prog, n) = b + 1
  BY <1>1, <1>2, ActFrame
<1>8. b + 1 \in Nat
  BY <1>1, StatementSpan
<1>9. Beyond(H, b + 1) = H
  BY <1>1, <1>7, <1>8, BeyondStays
<1>10. Heard(o) = NoError
  BY NothingHeard
<1> DEFINE tr == trace'
           e == o.error
           goal == Sim(prog, trace', a, ctl', flow', error', lhs', iter')
<1>11. /\ e = NoError => On(p, tr, a, b + 1, H, last, t, i, m + 1)
       /\ e # NoError => Off(p, tr, a, b, H, last, t, i, m + 1, e)
  <2> HIDE DEF p, q, r, b, H, site, m, tr, e
  <2>1. On(p, tr, a, b, H, last, t, i, m)
    BY <1>5 DEF p, tr
  <2>2. Has(Emit(p), b, Eval(site)) /\ AsksFor(tr, m, site) /\ tr[m + 1].error = e
    BY <1>6, <1>7 DEF p, tr, e
  <2> QED BY <1>9, <2>1, <2>2, OnEval
<1>12. CASE Fails(n, o)
  <2>1. e # NoError
    BY <1>12 DEF Fails
  <2>2. Off(prog, trace', a, b, H, last, t, i, Len(trace'), o.error)
    BY <1>6, <1>11, <2>1
  <2> QED BY <1>2, <1>4, <1>12, <2>2, SimRaises
<1>13. CASE /\ o.error = NoError
            /\ Complete(n, "none", Heard(o)) \/ Quit(n, "none", Heard(o))
  <2>1. ctl' = After(n) /\ flow' = "none"
    BY <1>10, <1>13, QuitIs, CompleteIs
  <2>2. Stands(prog, trace', a, q, r, StopAt(prog, n), iter', last, t, i)
    BY <1>2, <1>4, <1>6, <1>7, <1>11, <1>13 DEF Stands
  <2> QED BY <1>1, <2>1, <2>2, SimAfter
<1> QED BY <1>2, <1>12, <1>13

\* What comes before the first condition.
LEMMA HeadFrame ==
  ASSUME NEW p, IsTree(p), NEW n \in Stmts(p), p.kind[n] \in {"if", "switch", "while"}
  PROVE  /\ p.kind[n] = "if" => TestAt(p, n, 1) = StartAt(p, n)
         /\ p.kind[n] = "switch" => Has(Emit(p), StartAt(p, n), Eval(<<n, "subject", 0>>))
         /\ p.kind[n] = "while" => Has(Emit(p), StartAt(p, n), Label(HeadLabel(n)))
         /\ p.kind[n] \in {"switch", "while"} => TestAt(p, n, 1) = StartAt(p, n) + 1
<1> DEFINE c == Emit(p)
           b == StartAt(p, n)
           k == FrameOf(p, n)
           stop == b + Len(Code(p, n))
<1>1. Frame(p, c, n, b, k)
  BY FrameIs
<1> HIDE DEF c, b, k
<1>2. /\ p.kind[n] \in {"if", "switch"} => ChoiceFrame(p, c, n, b, k, stop)
      /\ p.kind[n] = "while" => WhileFrame(p, c, n, b, k, stop)
  BY <1>1 DEF Frame, Branchings
<1> HIDE DEF stop
<1>3. /\ p.kind[n] = "if" => k.test[1] = b
      /\ p.kind[n] = "switch" => Has(c, b, Eval(<<n, "subject", 0>>)) /\ k.test[1] = b + 1
      /\ p.kind[n] = "while" => Has(c, b, Label(HeadLabel(n))) /\ k.test[1] = b + 1
  BY <1>2 DEF ChoiceFrame, WhileFrame
<1> QED BY <1>3 DEF c, b, k, TestAt

\* Where a condition that does not hold leads: to the label Past(p, n, i).
Past(p, n, i) == IF p.kind[n] = "while" THEN End(n) ELSE Miss(n, i)

\* Where the parts of a condition and of its block are.
LEMMA ConditionFrame ==
  ASSUME NEW p, IsTree(p), NEW n \in Stmts(p), p.kind[n] \in {"if", "switch", "while"},
         NEW i \in 1 .. Arms, p.kind[n] = "while" => i = 1
  PROVE  /\ Holds(Emit(p), TestAt(p, n, i), Condition(p, n, i))
         /\ Has(Emit(p), TestAt(p, n, i) + Len(Condition(p, n, i)), JumpIfFalse(Past(p, n, i)))
         /\ InAt(p, n, i) = TestAt(p, n, i) + Len(Condition(p, n, i)) + 1
         /\ Has(Emit(p), OutAt(p, n, i) + 1, Label(Past(p, n, i)))
         /\ p.kind[n] = "while" => OutAt(p, n, i) + 1 + 1 = StopAt(p, n)
         /\ p.kind[n] # "while" =>
              OutAt(p, n, i) + 1 + 1 = IF i = Arms THEN InAt(p, n, Arms + 1) ELSE TestAt(p, n, i + 1)
         /\ i \in Slots(p.kind[n])
<1> DEFINE c == Emit(p)
           b == StartAt(p, n)
           k == FrameOf(p, n)
           stop == b + Len(Code(p, n))
           cond == Condition(p, n, i)
<1>1. Frame(p, c, n, b, k)
  BY FrameIs
<1>0. i \in Slots(p.kind[n])
  <2>1. p.kind[n] \in Kinds /\ i \in 1 .. (Arms + 1)
    BY ArmsAssumption DEF IsTree, Stmts
  <2> QED BY <2>1, SlotsOf DEF Branchings, Loops
<1>s. b \in Nat /\ StopAt(p, n) \in Nat /\ stop = StopAt(p, n)
  BY StatementSpan DEF StopAt
<1>b. k.out[i] \in Nat
  <2>1. IsBlock(p, n, i)
    BY <1>0 DEF IsBlock
  <2> QED BY <2>1, BlockSpan DEF OutAt
<1> HIDE DEF c, b, k
<1>2. CASE p.kind[n] # "while"
  <2>1. ChoiceFrame(p, c, n, b, k, stop)
    BY <1>1, <1>2 DEF Frame, Branchings
  <2>2. /\ Arm(c, cond, n, i, BlockCode(p, n, i), k.test[i], k.in[i], k.out[i])
        /\ k.out[i] + 2 = IF i = Arms THEN k.in[Arms + 1] ELSE k.test[i + 1]
    BY <2>1 DEF ChoiceFrame
  <2>3. k.out[i] + 1 + 1 = k.out[i] + 2
    BY <1>b
  <2>4. Past(p, n, i) = Miss(n, i)
    BY <1>2 DEF Past
  <2> HIDE DEF cond
  <2>5. /\ Holds(c, k.test[i], cond) /\ Has(c, k.test[i] + Len(cond), JumpIfFalse(Miss(n, i)))
        /\ k.in[i] = k.test[i] + Len(cond) + 1 /\ Has(c, k.out[i] + 1, Label(Miss(n, i)))
    BY <2>2 DEF Arm
  <2> QED BY <1>0, <1>2, <2>2, <2>3, <2>4, <2>5 DEF c, k, cond, TestAt, InAt, OutAt
<1>3. CASE p.kind[n] = "while"
  <2>1. WhileFrame(p, c, n, b, k, stop) /\ i = 1
    BY <1>1, <1>3 DEF Frame
  <2>2. cond = LowerCondition(p, n, 1)
    BY <1>3, <2>1 DEF Condition
  <2> HIDE DEF cond
  <2>3. /\ k.test[1] = b + 1 /\ Holds(c, b + 1, cond) /\ Has(c, b + 1 + Len(cond), JumpIfFalse(End(n)))
        /\ k.in[1] = b + 1 + Len(cond) + 1 /\ Has(c, k.out[1] + 1, Label(End(n)))
        /\ stop = k.out[1] + 2
    BY <2>1, <2>2 DEF WhileFrame
  <2>4. k.out[i] + 1 + 1 = k.out[i] + 2
    BY <1>b
  <2>5. Past(p, n, i) = End(n)
    BY <1>3 DEF Past
  <2>6. stop = StopAt(p, n)
    BY <1>s
  <2> HIDE DEF stop
  <2> QED BY <1>0, <1>3, <2>1, <2>3, <2>4, <2>5, <2>6 DEF c, k, cond, TestAt, InAt, OutAt
<1> QED BY <1>2, <1>3

\* At a condition of a statement, in either engine.
LEMMA SimTests ==
  ASSUME NEW p, NEW tr, NEW a, NEW n, NEW i, NEW er, NEW l, NEW it, NEW last, NEW t, NEW its,
         p.kind[n] = "while" => i = 1,
         Stands(p, tr, a, p.parent[n], p.slot[n], TestAt(p, n, i), it, last, t, its)
  PROVE  Sim(p, tr, a, At("test", n, i), "none", er, l, it)
<1> DEFINE ct == At("test", n, i)
<1>1. ct.at = "test" /\ ct.node = n /\ ct.arm = i
  BY AtIs
<1> HIDE DEF ct
<1>2. BlockAt(p, ct)[1] = p.parent[n] /\ BlockAt(p, ct)[2] = p.slot[n]
  BY <1>1 DEF BlockAt
<1>3. PlaceAt(p, ct) = TestAt(p, n, i)
  BY <1>1 DEF PlaceAt
<1>4. Stands(p, tr, a, BlockAt(p, ct)[1], BlockAt(p, ct)[2], PlaceAt(p, ct), it, last, t, its)
  BY <1>2, <1>3
<1>5. ct.at # "rhs" /\ ct.at # "bind"
  BY <1>1
<1>6. Calm(p, tr, a, ct, l, it)
  BY <1>1, <1>4, <1>5 DEF Calm
<1>7. Sim(p, tr, a, ct, "none", er, l, it)
  BY <1>6 DEF Sim
<1> QED BY <1>7 DEF ct

\* An if or a while begins, in either engine.
LEMMA SimDoCondition ==
  ASSUME InterpTypeOK, NEW a, NEW n \in Stmts(prog), DoCondition(n),
         Sim(prog, trace, a, ctl, flow, error, lhs, iter)
  PROVE  Sim(prog, trace', a, ctl', flow', error', lhs', iter')
<1> DEFINE q == prog.parent[n]
           r == prog.slot[n]
           b == StartAt(prog, n)
           H == HandlersIn(prog, q, r)
           m == Len(trace)
           x == TestAt(prog, n, 1)
<1>1. IsTree(prog)
  BY DEF InterpTypeOK
<1>2. /\ ctl = At("start", n, 0) /\ prog.kind[n] \in {"if", "while"} /\ trace' = trace
      /\ iter' = iter /\ ctl' = At("test", n, 1) /\ flow' = "none"
  BY DEF DoCondition, Starts, Silent, Proceed
<1>3. PICK last, t, i : Stands(prog, trace, a, q, r, b, iter, last, t, i)
  BY <1>1, <1>2, AtStart
<1>4. DOMAIN t = Temps /\ InStep(prog, q, r, iter, i) /\ On(prog, trace, a, b, H, last, t, i, m)
  BY <1>3 DEF Stands
<1>5. On(prog, trace, a, x, H, last, t, i, m)
  <2>1. CASE prog.kind[n] = "if"
    <3>1. x = b
      BY <1>1, <2>1, HeadFrame
    <3> QED BY <1>4, <3>1
  <2>2. CASE prog.kind[n] = "while"
    <3>1. Has(Emit(prog), b, Label(HeadLabel(n))) /\ x = b + 1
      BY <1>1, <2>2, HeadFrame
    <3>2. 1 \in 1 .. Arms
      BY ArmsAssumption
    <3>3. 1 \in Slots(prog.kind[n])
      BY <1>1, <1>2, <3>2, ConditionFrame
    <3>4. b \in Nat /\ StopAt(prog, n) \in Nat /\ b <= InAt(prog, n, 1)
          /\ InAt(prog, n, 1) <= OutAt(prog, n, 1) /\ OutAt(prog, n, 1) < StopAt(prog, n)
          /\ InAt(prog, n, 1) \in Nat /\ OutAt(prog, n, 1) \in Nat
      BY <1>1, <3>3, StatementSpan, BlockWithin, BlockSpan DEF IsBlock
    <3>5. x \in Nat /\ x <= StopAt(prog, n)
      BY <3>1, <3>4
    <3>6. Beyond(H, x) = H
      BY <1>1, <3>5, BeyondStays
    <3> HIDE DEF b, x, H, m
    <3> QED BY <1>4, <3>1, <3>6, OnLabel
  <2> QED BY <1>2, <2>1, <2>2
<1>6. Stands(prog, trace', a, q, r, x, iter', last, t, i)
  BY <1>2, <1>4, <1>5 DEF Stands
<1> QED BY <1>2, <1>6, SimTests

\* A switch begins, in either engine.
LEMMA SimDoSwitch ==
  ASSUME HostErrors = {}, InterpTypeOK, NEW a, NEW n \in Stmts(prog), NEW o \in Values({0}),
         DoSwitch(n, o), Sim(prog, trace, a, ctl, flow, error, lhs, iter)
  PROVE  Sim(prog, trace', a, ctl', flow', error', lhs', iter')
<1> DEFINE p == prog
           q == prog.parent[n]
           r == prog.slot[n]
           b == StartAt(prog, n)
           H == HandlersIn(prog, q, r)
           site == <<n, "subject", 0>>
           m == Len(trace)
<1>1. IsTree(prog)
  BY DEF InterpTypeOK
<1>2. /\ ctl = At("start", n, 0) /\ prog.kind[n] = "switch" /\ Record(site, o)
      /\ prog' = prog /\ iter' = iter
      /\ Fails(n, o) \/ (o.error = NoError /\ ctl' = At("test", n, 1) /\ flow' = "none")
  BY DEF DoSwitch, Starts, Proceed
<1>3. PICK last, t, i : Stands(prog, trace, a, q, r, b, iter, last, t, i)
  BY <1>1, <1>2, AtStart
<1>4. DOMAIN t = Temps /\ InStep(prog, q, r, iter, i)
  BY <1>3 DEF Stands
<1>5. On(prog, trace', a, b, H, last, t, i, m)
  BY <1>2, <1>3, StandsLonger
<1>6. /\ Len(trace') = m + 1 /\ AsksFor(trace', m, site)
      /\ trace'[m + 1].error = o.error
  BY <1>2, RecordIs
<1>7. Has(Emit(prog), b, Eval(site)) /\ TestAt(prog, n, 1) = b + 1
  BY <1>1, <1>2, HeadFrame
<1>8. b + 1 \in Nat /\ b + 1 <= StopAt(prog, n)
  <2>1. 1 \in 1 .. Arms
    BY ArmsAssumption
  <2>2. 1 \in Slots(prog.kind[n])
    BY <1>1, <1>2, <2>1, ConditionFrame
  <2>3. b \in Nat /\ StopAt(prog, n) \in Nat /\ b <= InAt(prog, n, 1)
          /\ InAt(prog, n, 1) <= OutAt(prog, n, 1) /\ OutAt(prog, n, 1) < StopAt(prog, n)
          /\ InAt(prog, n, 1) \in Nat /\ OutAt(prog, n, 1) \in Nat
    BY <1>1, <2>2, StatementSpan, BlockWithin, BlockSpan DEF IsBlock
  <2> QED BY <2>3
<1>9. Beyond(H, b + 1) = H
  BY <1>1, <1>8, BeyondStays
<1> DEFINE tr == trace'
           e == o.error
<1>11. /\ e = NoError => On(p, tr, a, b + 1, H, last, t, i, m + 1)
       /\ e # NoError => Off(p, tr, a, b, H, last, t, i, m + 1, e)
  <2> HIDE DEF p, q, r, b, H, site, m, tr, e
  <2>1. On(p, tr, a, b, H, last, t, i, m)
    BY <1>5 DEF p, tr
  <2>2. Has(Emit(p), b, Eval(site)) /\ AsksFor(tr, m, site) /\ tr[m + 1].error = e
    BY <1>6, <1>7 DEF p, tr, e
  <2> QED BY <1>9, <2>1, <2>2, OnEval
<1>12. CASE Fails(n, o)
  <2>1. e # NoError
    BY <1>12 DEF Fails
  <2>2. Off(prog, trace', a, b, H, last, t, i, Len(trace'), o.error)
    BY <1>6, <1>11, <2>1
  <2> QED BY <1>2, <1>4, <1>12, <2>2, SimRaises
<1>13. CASE o.error = NoError /\ ctl' = At("test", n, 1) /\ flow' = "none"
  <2>2. Stands(prog, trace', a, q, r, TestAt(prog, n, 1), iter', last, t, i)
    BY <1>2, <1>4, <1>6, <1>7, <1>11, <1>13 DEF Stands
  <2> QED BY <1>13, <2>2, SimTests
<1> QED BY <1>2, <1>12, <1>13

\* Where the parts of a try statement are.
LEMMA TryIs ==
  ASSUME NEW p, IsTree(p), NEW n \in Stmts(p), p.kind[n] = "try"
  PROVE  /\ Has(Emit(p), StartAt(p, n), PushTry(Catch(n)))
         /\ InAt(p, n, 1) = StartAt(p, n) + 1
         /\ Has(Emit(p), OutAt(p, n, 1), Jump(End(n)))
         /\ Has(Emit(p), CatchAt(p, n), Label(Catch(n)))
         /\ Has(Emit(p), CatchAt(p, n) + 1, StoreLastError(<<n, "catch", 0>>))
         /\ InAt(p, n, 2) = CatchAt(p, n) + 1 + 1
         /\ Has(Emit(p), OutAt(p, n, 2), Label(End(n)))
         /\ StopAt(p, n) = OutAt(p, n, 2) + 1
         /\ 1 \in Slots(p.kind[n]) /\ 2 \in Slots(p.kind[n])
<1> DEFINE c == Emit(p)
           b == StartAt(p, n)
           k == FrameOf(p, n)
           stop == b + Len(Code(p, n))
<1>1. Frame(p, c, n, b, k)
  BY FrameIs
<1>2. 1 \in Slots(p.kind[n]) /\ 2 \in Slots(p.kind[n])
  <2>1. p.kind[n] \in Kinds
    BY DEF IsTree, Stmts
  <2> QED BY <2>1, SlotsOf
<1>3. k.out[1] \in Nat
  <2>1. IsBlock(p, n, 1)
    BY <1>2 DEF IsBlock
  <2> QED BY <2>1, BlockSpan DEF OutAt
<1>4. stop = StopAt(p, n)
  BY DEF StopAt
<1> HIDE DEF c, b, k, stop
<1>5. TryFrame(p, c, n, b, k, stop)
  BY <1>1 DEF Frame, stop
<1>6. k.out[1] + 2 = k.out[1] + 1 + 1 /\ k.out[1] + 3 = k.out[1] + 1 + 1 + 1
  BY <1>3
<1>7. /\ Has(c, b, PushTry(Catch(n))) /\ k.in[1] = b + 1
      /\ Has(c, k.out[1], Jump(End(n))) /\ Has(c, k.out[1] + 1, Label(Catch(n)))
      /\ Has(c, k.out[1] + 1 + 1, StoreLastError(<<n, "catch", 0>>))
      /\ k.in[2] = k.out[1] + 1 + 1 + 1
      /\ Has(c, k.out[2], Label(End(n))) /\ stop = k.out[2] + 1
  BY <1>5, <1>6 DEF TryFrame
<1> QED BY <1>2, <1>4, <1>7 DEF c, b, k, InAt, OutAt, CatchAt

\* The handler of a try statement comes before those of the bodies around it.
LEMMA CatchFirst ==
  ASSUME NEW p, IsTree(p), NEW n \in Stmts(p), p.kind[n] = "try"
  PROVE  /\ \A h \in HandlersIn(p, p.parent[n], p.slot[n]) : CatchAt(p, n) < h
         /\ CatchAt(p, n) \in Nat
         /\ CatchAt(p, n) + 1 + 1 <= StopAt(p, n)
         /\ HandlersIn(p, n, 1) = HandlersIn(p, p.parent[n], p.slot[n]) \cup {CatchAt(p, n)}
         /\ HandlersIn(p, n, 2) = HandlersIn(p, p.parent[n], p.slot[n])
<1> DEFINE q == p.parent[n]
           r == p.slot[n]
           b == OutAt(p, q, r)
           d == StopAt(p, n)
           e == CatchAt(p, n)
<1>1. IsBlock(p, q, r) /\ IsBlock(p, n, 1) /\ IsBlock(p, n, 2)
  BY ParentIsBlock, TryIs DEF IsBlock
<1>2. d \in Nat /\ d <= b /\ b \in Nat
  BY <1>1, StatementSpan, BlockSpan
<1>3. OutAt(p, n, 1) \in Nat /\ InAt(p, n, 2) \in Nat /\ OutAt(p, n, 2) \in Nat
      /\ InAt(p, n, 2) <= OutAt(p, n, 2)
  BY <1>1, BlockSpan
<1>4. e = OutAt(p, n, 1) + 1 /\ InAt(p, n, 2) = e + 1 + 1 /\ d = OutAt(p, n, 2) + 1
  BY TryIs DEF CatchAt
<1>5. e \in Nat /\ e + 1 + 1 <= d /\ e < b
  <2> HIDE DEF e, d, b
  <2> QED BY <1>2, <1>3, <1>4
<1>6. \A h \in HandlersIn(p, q, r) : h \in Nat /\ b < h
  BY <1>1, HandlersAhead
<1>7. /\ HandlersIn(p, n, 1) = HandlersIn(p, q, r) \cup {e}
      /\ HandlersIn(p, n, 2) = HandlersIn(p, q, r)
  BY HandlersInside
<1> HIDE DEF q, r, b, d, e
<1>8. \A h \in HandlersIn(p, q, r) : e < h
  BY <1>2, <1>5, <1>6
<1> QED BY <1>5, <1>7, <1>8 DEF q, r, d, e

\* A try statement begins, in either engine.
LEMMA SimDoTry ==
  ASSUME InterpTypeOK, NEW a, NEW n \in Stmts(prog), DoTry(n),
         Sim(prog, trace, a, ctl, flow, error, lhs, iter)
  PROVE  Sim(prog, trace', a, ctl', flow', error', lhs', iter')
<1> DEFINE p == prog
           q == prog.parent[n]
           r == prog.slot[n]
           b == StartAt(prog, n)
           H == HandlersIn(prog, q, r)
           G == HandlersIn(prog, n, 1)
           m == Len(trace)
           to == CatchAt(prog, n)
           tr == trace
<1>1. IsTree(prog)
  BY DEF InterpTypeOK
<1>2. /\ ctl = At("start", n, 0) /\ prog.kind[n] = "try" /\ trace' = trace
      /\ iter' = iter /\ ctl' = Enter(n, 1) /\ flow' = "none"
  BY DEF DoTry, Starts, Silent, Proceed
<1>3. PICK last, t, i : Stands(prog, trace, a, q, r, b, iter, last, t, i)
  BY <1>1, <1>2, AtStart
<1>4. DOMAIN t = Temps /\ InStep(prog, q, r, iter, i) /\ On(prog, trace, a, b, H, last, t, i, m)
  BY <1>3 DEF Stands
<1>5. /\ Has(Emit(prog), b, PushTry(Catch(n))) /\ Has(Emit(prog), to, Label(Catch(n)))
      /\ InAt(prog, n, 1) = b + 1 /\ 1 \in Slots(prog.kind[n])
  BY <1>1, <1>2, TryIs
<1>6. (\A h \in H : to < h) /\ G = H \cup {to}
  BY <1>1, <1>2, CatchFirst
<1>7. IsBlock(prog, n, 1)
  BY <1>5 DEF IsBlock
<1>8. Beyond(G, b + 1) = G
  <2>1. InAt(prog, n, 1) \in Nat /\ InAt(prog, n, 1) <= OutAt(prog, n, 1)
    BY <1>1, <1>7, BlockSpan
  <2>2. Beyond(G, InAt(prog, n, 1)) = G
    BY <1>1, <1>7, <2>1, BeyondInside
  <2> QED BY <1>5, <2>2
<1>9. On(p, tr, a, b + 1, G, last, t, i, m)
  <2> HIDE DEF p, tr, b, H, G, m, to
  <2>1. IsTree(p) /\ On(p, tr, a, b, H, last, t, i, m) /\ Has(Emit(p), b, PushTry(Catch(n)))
        /\ Has(Emit(p), to, Label(Catch(n))) /\ \A h \in H : to < h
    BY <1>1, <1>4, <1>5, <1>6 DEF p, tr
  <2>2. On(p, tr, a, b + 1, Beyond(H \cup {to}, b + 1), last, t, i, m)
    BY <2>1, OnPushTry
  <2> QED BY <1>6, <1>8, <2>2
<1>10. InStep(prog, n, 1, iter, i)
  BY <1>1, <1>2, <1>4, InStepIn
<1>11. Stands(prog, trace', a, n, 1, InAt(prog, n, 1), iter', last, t, i)
  BY <1>2, <1>4, <1>5, <1>9, <1>10 DEF Stands
<1> QED BY <1>1, <1>2, <1>7, <1>11, SimEnter

\* Where the parts of a for loop are.
LEMMA ForIs ==
  ASSUME NEW p, IsTree(p), NEW n \in Stmts(p), p.kind[n] = "for"
  PROVE  LET b == StartAt(p, n)
             c == Emit(p)
         IN  /\ Has(c, b, IterStart(ForSite(n)))
             /\ Has(c, b + 1, Label(HeadLabel(n)))
             /\ Has(c, b + 2, IterHasNext(ForSite(n)))
             /\ Has(c, b + 3, JumpIfFalse(End(n)))
             /\ Has(c, b + 4, IterNext(ForSite(n)))
             /\ Has(c, b + 5, StoreBinding(<<n, "bind", 0>>))
             /\ InAt(p, n, 1) = b + 6
             /\ Has(c, OutAt(p, n, 1), Jump(HeadLabel(n)))
             /\ Has(c, OutAt(p, n, 1) + 1, Label(End(n)))
             /\ StopAt(p, n) = OutAt(p, n, 1) + 1 + 1
             /\ 1 \in Slots(p.kind[n])
<1> DEFINE c == Emit(p)
           b == StartAt(p, n)
           k == FrameOf(p, n)
           stop == b + Len(Code(p, n))
<1>1. Frame(p, c, n, b, k)
  BY FrameIs
<1>2. 1 \in Slots(p.kind[n])
  <2>1. p.kind[n] \in Kinds
    BY DEF IsTree, Stmts
  <2> QED BY <2>1, SlotsOf DEF Loops
<1>3. k.out[1] \in Nat
  <2>1. IsBlock(p, n, 1)
    BY <1>2 DEF IsBlock
  <2> QED BY <2>1, BlockSpan DEF OutAt
<1>4. stop = StopAt(p, n)
  BY DEF StopAt
<1> HIDE DEF c, b, k, stop
<1>5. ForFrame(p, c, n, b, k, stop)
  BY <1>1 DEF Frame, stop
<1>6. k.out[1] + 2 = k.out[1] + 1 + 1
  BY <1>3
<1>7. /\ Has(c, b, IterStart(ForSite(n)))
      /\ Has(c, b + 1, Label(HeadLabel(n)))
      /\ Has(c, b + 2, IterHasNext(ForSite(n)))
      /\ Has(c, b + 3, JumpIfFalse(End(n)))
      /\ Has(c, b + 4, IterNext(ForSite(n)))
      /\ Has(c, b + 5, StoreBinding(<<n, "bind", 0>>))
      /\ k.in[1] = b + 6
      /\ Has(c, k.out[1], Jump(HeadLabel(n)))
      /\ Has(c, k.out[1] + 1, Label(End(n)))
      /\ stop = k.out[1] + 1 + 1
  BY <1>5, <1>6 DEF ForFrame, ForSite
<1> QED BY <1>2, <1>4, <1>7 DEF c, b, k, InAt, OutAt

\* An iterator started, in either engine.
LEMMA StartsInStep ==
  ASSUME NEW p, NEW q, NEW r, NEW it, NEW i, NEW n \in Stmts(p), NEW v,
         DOMAIN it = Stmts(p), InStep(p, q, r, it, i)
  PROVE  /\ InStep(p, q, r, [it EXCEPT ![n] = [len |-> v, cursor |-> 0]],
                   StartedWith(i, ForSite(n), v))
         /\ ForSite(n) \in DOMAIN StartedWith(i, ForSite(n), v)
<1> DEFINE z == [len |-> v, cursor |-> 0]
           f == ForSite(n)
           j == [x \in DOMAIN i \cup {f} |-> IF x = f THEN z ELSE i[x]]
           jt == [it EXCEPT ![n] = z]
<1>1. j = StartedWith(i, ForSite(n), v)
  BY DEF StartedWith
<1>2. \A x : ForSite(x) = f <=> x = n
  BY DEF ForSite
<1> HIDE DEF z, f
<1>3. DOMAIN j = DOMAIN i \cup {f} /\ j[f] = z /\ \A x \in DOMAIN i : x # f => j[x] = i[x]
  OBVIOUS
<1>4. jt[n] = z /\ \A x \in Stmts(p) : x # n => jt[x] = it[x]
  OBVIOUS
<1> HIDE DEF j, jt
<1>5. InStep(p, q, r, jt, j)
  BY <1>2, <1>3, <1>4 DEF InStep
<1> QED BY <1>1, <1>3, <1>5 DEF z, f, jt

\* At the head of a for loop, in either engine.
LEMMA SimBinds ==
  ASSUME NEW p, NEW tr, NEW a, NEW n, NEW er, NEW l, NEW it, NEW last, NEW t, NEW i,
         ForSite(n) \in DOMAIN i,
         Stands(p, tr, a, p.parent[n], p.slot[n], StartAt(p, n) + 1, it, last, t, i)
  PROVE  Sim(p, tr, a, At("bind", n, 0), "none", er, l, it)
<1> DEFINE ct == At("bind", n, 0)
<1>1. ct.at = "bind" /\ ct.node = n /\ ct.arm = 0
  BY AtIs
<1> HIDE DEF ct
<1>2. BlockAt(p, ct)[1] = p.parent[n] /\ BlockAt(p, ct)[2] = p.slot[n]
  BY <1>1 DEF BlockAt
<1>3. PlaceAt(p, ct) = StartAt(p, n) + 1
  BY <1>1 DEF PlaceAt
<1>4. Stands(p, tr, a, BlockAt(p, ct)[1], BlockAt(p, ct)[2], PlaceAt(p, ct), it, last, t, i)
  BY <1>2, <1>3
<1>5. ct.at # "rhs" /\ ct.at \notin {"test", "rhs"} /\ ForSite(ct.node) \in DOMAIN i
  BY <1>1
<1>6. Calm(p, tr, a, ct, l, it)
  BY <1>4, <1>5 DEF Calm
<1>7. Sim(p, tr, a, ct, "none", er, l, it)
  BY <1>6 DEF Sim
<1> QED BY <1>7 DEF ct

\* A for loop begins, in either engine.
LEMMA SimDoFor ==
  ASSUME HostErrors = {}, InterpTypeOK, NEW a, NEW n \in Stmts(prog), NEW o \in Values(0 .. MaxLen),
         DoFor(n, o), Sim(prog, trace, a, ctl, flow, error, lhs, iter)
  PROVE  Sim(prog, trace', a, ctl', flow', error', lhs', iter')
<1> DEFINE p == prog
           q == prog.parent[n]
           r == prog.slot[n]
           b == StartAt(prog, n)
           H == HandlersIn(prog, q, r)
           site == ForSite(n)
           m == Len(trace)
<1>1. IsTree(prog) /\ DOMAIN iter = Stmts(prog)
  BY DEF InterpTypeOK
<1>2. /\ ctl = At("start", n, 0) /\ prog.kind[n] = "for" /\ Record(site, o)
      /\ prog' = prog
      /\ \/ Fails(n, o) /\ iter' = iter
         \/ /\ o.error = NoError
            /\ iter' = [iter EXCEPT ![n] = [len |-> o.value, cursor |-> 0]]
            /\ ctl' = At("bind", n, 0) /\ flow' = "none"
  BY DEF DoFor, Starts, Proceed, ForSite
<1>3. PICK last, t, i : Stands(prog, trace, a, q, r, b, iter, last, t, i)
  BY <1>1, <1>2, AtStart
<1>4. DOMAIN t = Temps /\ InStep(prog, q, r, iter, i)
  BY <1>3 DEF Stands
<1>5. On(prog, trace', a, b, H, last, t, i, m)
  BY <1>2, <1>3, StandsLonger
<1>6. /\ Len(trace') = m + 1 /\ AsksFor(trace', m, site)
      /\ trace'[m + 1].error = o.error /\ trace'[m + 1].value = o.value
  BY <1>2, RecordIs
<1>7. Has(Emit(prog), b, IterStart(site)) /\ 1 \in Slots(prog.kind[n])
      /\ InAt(prog, n, 1) = b + 6
  BY <1>1, <1>2, ForIs
<1>8. b + 1 \in Nat /\ b + 1 <= StopAt(prog, n)
  <2>3. b \in Nat /\ StopAt(prog, n) \in Nat /\ InAt(prog, n, 1) = b + 6
          /\ InAt(prog, n, 1) <= OutAt(prog, n, 1) /\ OutAt(prog, n, 1) < StopAt(prog, n)
          /\ InAt(prog, n, 1) \in Nat /\ OutAt(prog, n, 1) \in Nat
    BY <1>1, <1>7, StatementSpan, BlockWithin, BlockSpan DEF IsBlock
  <2> QED BY <2>3
<1>9. Beyond(H, b + 1) = H
  BY <1>1, <1>8, BeyondStays
<1> DEFINE tr == trace'
           e == o.error
           i2 == StartedWith(i, site, o.value)
<1>11. /\ e = NoError => On(p, tr, a, b + 1, H, last, t, i2, m + 1)
       /\ e # NoError => Off(p, tr, a, b, H, last, t, i, m + 1, e)
  <2> DEFINE v == o.value
  <2> HIDE DEF p, q, r, b, H, site, m, tr, e, v
  <2>1. On(p, tr, a, b, H, last, t, i, m)
    BY <1>5 DEF p, tr
  <2>2. Has(Emit(p), b, IterStart(site)) /\ AsksFor(tr, m, site) /\ tr[m + 1].error = e
        /\ tr[m + 1].value = v
    BY <1>6, <1>7 DEF p, tr, e, v
  <2>3. /\ e = NoError => On(p, tr, a, b + 1, Beyond(H, b + 1), last, t, StartedWith(i, site, v), m + 1)
        /\ e # NoError => Off(p, tr, a, b, H, last, t, i, m + 1, e)
    BY <2>1, <2>2, OnIterStart
  <2> QED BY <1>9, <2>3 DEF v
<1>12. CASE Fails(n, o) /\ iter' = iter
  <2>1. e # NoError
    BY <1>12 DEF Fails
  <2>2. Off(prog, trace', a, b, H, last, t, i, Len(trace'), o.error)
    BY <1>6, <1>11, <2>1
  <2>3. InStep(prog, q, r, iter', i)
    BY <1>4, <1>12
  <2> QED BY <1>2, <1>4, <1>12, <2>2, <2>3, SimRaises
<1>13. CASE /\ o.error = NoError
            /\ iter' = [iter EXCEPT ![n] = [len |-> o.value, cursor |-> 0]]
            /\ ctl' = At("bind", n, 0) /\ flow' = "none"
  <2>1. InStep(prog, q, r, iter', i2) /\ site \in DOMAIN i2
    <3> DEFINE v == o.value
               it == iter
    <3>1. DOMAIN it = Stmts(prog) /\ InStep(prog, q, r, it, i)
      BY <1>1, <1>4
    <3> HIDE DEF v, it, q, r
    <3>2. /\ InStep(prog, q, r, [it EXCEPT ![n] = [len |-> v, cursor |-> 0]],
                   StartedWith(i, ForSite(n), v))
          /\ ForSite(n) \in DOMAIN StartedWith(i, ForSite(n), v)
      BY <3>1, StartsInStep
    <3> QED BY <1>13, <3>2 DEF v, it
  <2>2. On(prog, trace', a, b + 1, H, last, t, i2, Len(trace'))
    BY <1>6, <1>11, <1>13
  <2> HIDE DEF i2
  <2>3. Stands(prog, trace', a, q, r, b + 1, iter', last, t, i2)
    BY <1>4, <2>1, <2>2 DEF Stands
  <2> QED BY <1>13, <2>1, <2>3, SimBinds
<1> QED BY <1>2, <1>12, <1>13

\* A program on whose features the engines do not part.
LEMMA PartsNowhere ==
  ASSUME NEW p, PartingFeatures(p) = {}
  PROVE  ~ ContinueLeavesTry(p) /\ ~ ReturnInTry(p) /\ ~ StrayLoopControl(p) /\ ~ ScriptReturn(p)
<1> DEFINE S == {"continue_in_try", "return_in_try", "stray_control", "script_return"}
           F(f) == CASE f = "continue_in_try" -> ContinueLeavesTry(p)
                     [] f = "return_in_try"   -> ReturnInTry(p)
                     [] f = "stray_control"   -> StrayLoopControl(p)
                     [] f = "script_return"   -> ScriptReturn(p)
<1>1. \A f \in S : ~ F(f)
  BY DEF PartingFeatures
<1>2. ~ F("continue_in_try") /\ ~ F("return_in_try") /\ ~ F("stray_control") /\ ~ F("script_return")
  BY <1>1
<1>3. /\ F("continue_in_try") <=> ContinueLeavesTry(p)
      /\ F("return_in_try") <=> ReturnInTry(p)
      /\ F("stray_control") <=> StrayLoopControl(p)
      /\ F("script_return") <=> ScriptReturn(p)
  OBVIOUS
<1> HIDE DEF F
<1> QED BY <1>2, <1>3

\* Where the labels of a loop are.
LEMMA LoopIs ==
  ASSUME NEW p, IsTree(p), NEW n \in Stmts(p), p.kind[n] \in Loops
  PROVE  /\ Has(Emit(p), HeadAt(p, n), Label(HeadLabel(n)))
         /\ Has(Emit(p), OutAt(p, n, 1), Jump(HeadLabel(n)))
         /\ Has(Emit(p), EndAt(p, n), Label(End(n)))
         /\ StopAt(p, n) = EndAt(p, n) + 1
         /\ 1 \in Slots(p.kind[n])
         /\ HeadAt(p, n) \in Nat /\ HeadAt(p, n) + 1 <= StopAt(p, n) /\ EndAt(p, n) \in Nat
         /\ p.kind[n] = "while" => HeadAt(p, n) = StartAt(p, n)
         /\ p.kind[n] = "for" => HeadAt(p, n) = StartAt(p, n) + 1
<1>1. 1 \in Slots(p.kind[n])
  <2>1. p.kind[n] \in Kinds
    BY DEF IsTree, Stmts
  <2> QED BY <2>1, SlotsOf DEF Loops
<1>2. /\ StartAt(p, n) \in Nat /\ InAt(p, n, 1) \in Nat /\ OutAt(p, n, 1) \in Nat
      /\ StartAt(p, n) <= InAt(p, n, 1) /\ InAt(p, n, 1) <= OutAt(p, n, 1)
  BY <1>1, StatementSpan, BlockWithin, BlockSpan DEF IsBlock
<1>3. /\ p.kind[n] = "while" => HeadAt(p, n) = StartAt(p, n) + 0
      /\ p.kind[n] = "for" => HeadAt(p, n) = StartAt(p, n) + 1
  BY DEF HeadAt
<1>4. CASE p.kind[n] = "for"
  <2>1. /\ Has(Emit(p), StartAt(p, n) + 1, Label(HeadLabel(n)))
        /\ Has(Emit(p), OutAt(p, n, 1), Jump(HeadLabel(n)))
        /\ Has(Emit(p), OutAt(p, n, 1) + 1, Label(End(n)))
        /\ StopAt(p, n) = OutAt(p, n, 1) + 1 + 1
    BY <1>4, ForIs
  <2>2. HeadAt(p, n) = StartAt(p, n) + 1 /\ EndAt(p, n) = OutAt(p, n, 1) + 1
    BY <1>3, <1>4 DEF EndAt
  <2>3. HeadAt(p, n) \in Nat /\ HeadAt(p, n) + 1 <= StopAt(p, n) /\ EndAt(p, n) \in Nat
    BY <1>2, <2>1, <2>2
  <2> QED BY <1>1, <1>4, <2>1, <2>2, <2>3
<1>5. CASE p.kind[n] = "while"
  <2> DEFINE c == Emit(p)
             b == StartAt(p, n)
             k == FrameOf(p, n)
             stop == b + Len(Code(p, n))
  <2>1. Frame(p, c, n, b, k)
    BY FrameIs
  <2>2. stop = StopAt(p, n)
    BY DEF StopAt
  <2> HIDE DEF c, b, k, stop
  <2>3. WhileFrame(p, c, n, b, k, stop)
    BY <1>5, <2>1 DEF Frame, stop
  <2>4. Has(c, b, Label(HeadLabel(n))) /\ Has(c, k.out[1], Jump(HeadLabel(n)))
        /\ Has(c, k.out[1] + 1, Label(End(n))) /\ stop = k.out[1] + 2
    BY <2>3 DEF WhileFrame
  <2>5. HeadAt(p, n) = StartAt(p, n) /\ EndAt(p, n) = OutAt(p, n, 1) + 1
    BY <1>2, <1>3, <1>5 DEF EndAt
  <2>6. StopAt(p, n) = OutAt(p, n, 1) + 2
    BY <2>2, <2>4 DEF k, OutAt
  <2>7. HeadAt(p, n) \in Nat /\ HeadAt(p, n) + 1 <= StopAt(p, n) /\ EndAt(p, n) \in Nat
        /\ StopAt(p, n) = EndAt(p, n) + 1
    BY <1>2, <2>5, <2>6
  <2>8. Has(c, HeadAt(p, n), Label(HeadLabel(n))) /\ Has(c, OutAt(p, n, 1), Jump(HeadLabel(n)))
        /\ Has(c, EndAt(p, n), Label(End(n)))
    BY <2>4, <2>5 DEF b, k, OutAt
  <2> QED BY <1>1, <1>5, <2>5, <2>7, <2>8 DEF c
<1> QED BY <1>4, <1>5 DEF Loops

\* The code of a return, of a break and of a continue.
LEMMA ControlFrame ==
  ASSUME NEW p, IsTree(p), NEW n \in Stmts(p)
  PROVE  /\ p.kind[n] = "return" => Holds(Emit(p), StartAt(p, n), EmitReturnFromOutputs(p))
         /\ p.kind[n] = "break" /\ LoopOf(p, n) # 0 =>
              Has(Emit(p), StartAt(p, n), Jump(End(LoopOf(p, n))))
         /\ p.kind[n] = "continue" /\ LoopOf(p, n) # 0 =>
              Has(Emit(p), StartAt(p, n), Jump(HeadLabel(LoopOf(p, n))))
<1> DEFINE c == Emit(p)
           b == StartAt(p, n)
           k == FrameOf(p, n)
<1>1. Frame(p, c, n, b, k)
  BY FrameIs
<1> HIDE DEF c, b, k
<1>2. /\ p.kind[n] = "return" => Holds(c, b, EmitReturnFromOutputs(p))
      /\ p.kind[n] = "break" /\ LoopOf(p, n) # 0 => Has(c, b, Jump(End(LoopOf(p, n))))
      /\ p.kind[n] = "continue" /\ LoopOf(p, n) # 0 => Has(c, b, Jump(HeadLabel(LoopOf(p, n))))
  BY <1>1 DEF Frame
<1> QED BY <1>2 DEF c, b

\* Where the loop around a block is, and what a jump to it keeps.
LEMMA LoopAround ==
  ASSUME NEW p, IsTree(p), NEW n, NEW s, IsBlock(p, n, s), LoopIn(p, n, s) # 0
  PROVE  LET l == LoopIn(p, n, s) IN
         /\ l \in Stmts(p) /\ p.kind[l] \in Loops
         /\ Beyond(HandlersIn(p, n, s), EndAt(p, l)) = HandlersIn(p, p.parent[l], p.slot[l])
         /\ (\A t \in TriesIn(p, n, s) : ~ (l < t)) =>
              Beyond(HandlersIn(p, n, s), HeadAt(p, l)) = HandlersIn(p, p.parent[l], p.slot[l])
<1> DEFINE l == LoopIn(p, n, s)
           H == HandlersIn(p, n, s)
           G == HandlersIn(p, p.parent[l], p.slot[l])
<1>1. n # 0
  BY TopLoop
<1>2. n \in Stmts(p) /\ s \in Slots(p.kind[n])
  BY <1>1 DEF IsBlock
<1>3. l \in Stmts(p) /\ p.kind[l] \in Loops
  BY <1>2, LoopInIs
<1>4. LoopLeaves(p, n, s)
  BY LoopAlwaysLeaves
<1>5. /\ {h \in H : EndAt(p, l) < h} = G
      /\ (\A t \in TriesIn(p, n, s) : ~ (l < t)) => H = G
  BY <1>4 DEF LoopLeaves
<1>6. Beyond(G, HeadAt(p, l)) = G
  <2>1. HeadAt(p, l) \in Nat /\ HeadAt(p, l) + 1 <= StopAt(p, l) /\ StopAt(p, l) \in Nat
    BY <1>3, LoopIs, StatementSpan
  <2>2. HeadAt(p, l) <= StopAt(p, l)
    BY <2>1
  <2> QED BY <1>3, <2>1, <2>2, BeyondStays
<1>7. Beyond(H, EndAt(p, l)) = G
  BY <1>5 DEF Beyond
<1> HIDE DEF l, H, G
<1>8. (\A t \in TriesIn(p, n, s) : ~ (l < t)) => Beyond(H, HeadAt(p, l)) = G
  BY <1>5, <1>6
<1> QED BY <1>3, <1>7, <1>8 DEF l, H, G

\* A return, a break or a continue, in either engine.
LEMMA SimDoControl ==
  ASSUME HostErrors = {}, InterpTypeOK, PartingFeatures(prog) = {}, NEW a, NEW n \in Stmts(prog),
         DoControl(n), Sim(prog, trace, a, ctl, flow, error, lhs, iter)
  PROVE  Sim(prog, trace', a, ctl', flow', error', lhs', iter')
<1> DEFINE p == prog
           q == prog.parent[n]
           r == prog.slot[n]
           b == StartAt(prog, n)
           H == HandlersIn(prog, q, r)
           m == Len(trace)
           tr == trace
           loop == LoopIn(prog, q, r)
           f == prog.kind[n]
           ct == At("end", q, r)
<1>1. IsTree(prog)
  BY DEF InterpTypeOK
<1>2. /\ ctl = At("start", n, 0) /\ f \in Controls /\ trace' = trace
      /\ iter' = iter /\ ctl' = ct /\ flow' = f
  <2>1. ctl = At("start", n, 0) /\ f \in Controls /\ trace' = trace /\ iter' = iter
        /\ Complete(n, f, queue)
    BY DEF DoControl, Starts, Silent
  <2>2. queue = NoError /\ f # "none"
    BY <2>1, NothingHeard DEF Controls
  <2>3. ctl' = ct /\ flow' = f
    BY <2>1, <2>2, CompleteIs
  <2> QED BY <2>1, <2>3
<1>3. PICK last, t, i : Stands(prog, trace, a, q, r, b, iter, last, t, i)
  BY <1>1, <1>2, AtStart
<1>4. DOMAIN t = Temps /\ InStep(prog, q, r, iter, i) /\ On(prog, trace, a, b, H, last, t, i, m)
  BY <1>3 DEF Stands
<1>5. ~ ContinueLeavesTry(prog) /\ ~ ReturnInTry(prog) /\ ~ StrayLoopControl(prog) /\ ~ ScriptReturn(prog)
  BY PartsNowhere
<1>6. LoopOf(prog, n) = loop /\ TriesOf(prog, n) = TriesIn(prog, q, r) /\ IsBlock(prog, q, r)
  BY <1>1, LoopOfParent, TriesOfIs, ParentIsBlock
<1>7. CASE f = "return"
  <2>1. prog.unit = "function"
    BY <1>1, <1>5, <1>7 DEF ScriptReturn, IsTree, Units
  <2>2. TriesIn(prog, q, r) = {}
    BY <1>5, <1>6, <1>7, <2>1 DEF ReturnInTry
  <2>3. H = {}
    BY <2>2 DEF HandlersIn
  <2>4. Holds(Emit(prog), b, EmitReturnFromOutputs(prog))
    BY <1>1, <1>7, ControlFrame
  <2>5. Returning(prog, trace', a, q, r, iter')
    <3>1. On(prog, trace', a, b, {}, last, t, i, Len(trace'))
      BY <1>2, <1>4, <2>3
    <3> HIDE DEF b
    <3> QED BY <1>2, <1>4, <2>1, <2>4, <3>1 DEF Returning
  <2> QED BY <1>2, <1>7, <2>5, AtIs DEF Sim
<1>8. CASE f \in {"break", "continue"}
  <2>1. loop # 0
    BY <1>5, <1>6, <1>8 DEF StrayLoopControl
  <2> DEFINE G == HandlersIn(prog, prog.parent[loop], prog.slot[loop])
  <2>2. /\ loop \in Stmts(prog) /\ prog.kind[loop] \in Loops
        /\ Beyond(H, EndAt(prog, loop)) = G
        /\ (\A x \in TriesIn(prog, q, r) : ~ (loop < x)) => Beyond(H, HeadAt(prog, loop)) = G
    BY <1>1, <1>6, <2>1, LoopAround
  <2>3. f = "continue" => \A x \in TriesIn(prog, q, r) : ~ (loop < x)
    BY <1>5, <1>6, <2>1 DEF ContinueLeavesTry
  <2>4. /\ Has(Emit(prog), HeadAt(prog, loop), Label(HeadLabel(loop)))
        /\ Has(Emit(prog), EndAt(prog, loop), Label(End(loop)))
    BY <1>1, <2>2, LoopIs
  <2>5. /\ f = "break" => Has(Emit(prog), b, Jump(End(loop)))
        /\ f = "continue" => Has(Emit(prog), b, Jump(HeadLabel(loop)))
    BY <1>1, <1>6, <2>1, ControlFrame
  <2> DEFINE to == IF f = "break" THEN EndAt(prog, loop) ELSE HeadAt(prog, loop)
             x == IF f = "break" THEN End(loop) ELSE HeadLabel(loop)
  <2>6. Has(Emit(prog), b, Jump(x)) /\ Has(Emit(prog), to, Label(x)) /\ Beyond(H, to) = G
    <3>1. CASE f = "break"
      BY <2>2, <2>4, <2>5, <3>1
    <3>2. CASE f = "continue"
      BY <2>2, <2>3, <2>4, <2>5, <3>2
    <3> QED BY <1>8, <3>1, <3>2
  <2>7. On(p, tr, a, to, G, last, t, i, m)
    <3> HIDE DEF p, tr, b, H, G, m, to, x
    <3>1. IsTree(p) /\ On(p, tr, a, b, H, last, t, i, m) /\ Has(Emit(p), b, Jump(x))
          /\ Has(Emit(p), to, Label(x))
      BY <1>1, <1>4, <2>6 DEF p, tr
    <3> QED BY <2>6, <3>1, OnJump
  <2>8. Leaving(prog, trace', a, q, r, f, iter')
    <3>1. On(prog, trace', a, to, G, last, t, i, Len(trace'))
      BY <1>2, <2>7
    <3> QED BY <1>2, <1>4, <2>1, <3>1 DEF Leaving
  <2> QED BY <1>2, <1>8, <2>8, AtIs DEF Sim
<1> QED BY <1>2, <1>7, <1>8 DEF Controls

\* The statements that have conditions, and those that have elements.
LEMMA PlacesOf ==
  ASSUME NEW p, NEW n, NEW i, NEW x \in {"test", "rhs"}
  PROVE  /\ At(x, n, i) \in Places(p) =>
              n \in Stmts(p) /\ i \in 1 .. Arms /\ p.kind[n] \in {"if", "switch", "while"}
         /\ At("bind", n, 0) \in Places(p) => n \in Stmts(p) /\ p.kind[n] = "for"
<1>1. \A y, m, j, z, v, u : At(y, m, j) = At(z, v, u) => y = z /\ m = v /\ j = u
  BY AtIs
<1>2. ASSUME At(x, n, i) \in Places(p)
      PROVE  n \in Stmts(p) /\ i \in 1 .. Arms /\ p.kind[n] \in {"if", "switch", "while"}
  <2>1. PICK y, m, j : /\ At(x, n, i) = At(y, m, j)
                       /\ \/ y = "start" \/ y = "bind" \/ y = "end"
                          \/ j \in 1 .. Arms /\ m \in Stmts(p) /\ p.kind[m] \in {"if", "switch", "while"}
    BY <1>2 DEF Places
  <2> QED BY <1>1, <2>1
<1>3. ASSUME At("bind", n, 0) \in Places(p)
      PROVE  n \in Stmts(p) /\ p.kind[n] = "for"
  <2>1. PICK y, m, j : /\ At("bind", n, 0) = At(y, m, j)
                       /\ \/ y = "start" \/ y = "test" \/ y = "rhs" \/ y = "end"
                          \/ m \in Stmts(p) /\ p.kind[m] = "for"
    BY <1>3 DEF Places
  <2> QED BY <1>1, <2>1
<1> QED BY <1>2, <1>3

\* A condition of a statement, in either engine.
LEMMA AtCondition ==
  ASSUME InterpTypeOK, NEW a, NEW n, NEW i, NEW x \in {"test", "rhs"}, ctl = At(x, n, i),
         Sim(prog, trace, a, ctl, flow, error, lhs, iter)
  PROVE  /\ n \in Stmts(prog) /\ i \in 1 .. Arms /\ prog.kind[n] \in {"if", "switch", "while"}
         /\ \E last, t, its :
              /\ Stands(prog, trace, a, prog.parent[n], prog.slot[n],
                        IF x = "test" THEN TestAt(prog, n, i) ELSE TestAt(prog, n, i) + 1,
                        iter, last, t, its)
              /\ x = "rhs" => t["lhs"] = lhs /\ prog.test[n] # "plain"
              /\ prog.kind[n] = "while" => i = 1
<1>1. ctl.at = x /\ ctl.node = n /\ ctl.arm = i
  BY AtIs
<1>2. flow = "none"
  BY <1>1 DEF Sim
<1>3. Calm(prog, trace, a, ctl, lhs, iter)
  BY <1>2 DEF Sim
<1>4. BlockAt(prog, ctl)[1] = prog.parent[n] /\ BlockAt(prog, ctl)[2] = prog.slot[n]
  BY <1>1 DEF BlockAt
<1>5. PlaceAt(prog, ctl) = IF x = "test" THEN TestAt(prog, n, i) ELSE TestAt(prog, n, i) + 1
  BY <1>1 DEF PlaceAt
<1>6. n \in Stmts(prog) /\ i \in 1 .. Arms /\ prog.kind[n] \in {"if", "switch", "while"}
  BY PlacesOf DEF InterpTypeOK, FlowOK
<1>7. PICK last, t, its :
        /\ Stands(prog, trace, a, BlockAt(prog, ctl)[1], BlockAt(prog, ctl)[2], PlaceAt(prog, ctl),
                  iter, last, t, its)
        /\ ctl.at = "rhs" => t["lhs"] = lhs /\ prog.test[ctl.node] # "plain"
        /\ ctl.at \in {"test", "rhs"} /\ prog.kind[ctl.node] = "while" => ctl.arm = 1
  BY <1>3 DEF Calm
<1>8. Stands(prog, trace, a, prog.parent[n], prog.slot[n],
             IF x = "test" THEN TestAt(prog, n, i) ELSE TestAt(prog, n, i) + 1, iter, last, t, its)
  BY <1>4, <1>5, <1>7
<1> QED BY <1>1, <1>6, <1>7, <1>8

\* What comes next is still inside the statement.
LEMMA NextInside ==
  ASSUME NEW p, IsTree(p), NEW n \in Stmts(p), p.kind[n] \in {"if", "switch", "while"},
         p.kind[n] # "while", NEW i \in 1 .. Arms
  PROVE  (IF i = Arms THEN InAt(p, n, Arms + 1) ELSE TestAt(p, n, i + 1)) <= StopAt(p, n)
<1>1. p.kind[n] \in Kinds /\ p.kind[n] \in Branchings
  BY DEF Kinds, Branchings
<1>2. Slots(p.kind[n]) = 1 .. (Arms + 1)
  BY <1>1, SlotsOf
<1>3. \A s \in 1 .. (Arms + 1) : /\ InAt(p, n, s) \in Nat /\ StopAt(p, n) \in Nat
                                 /\ InAt(p, n, s) <= StopAt(p, n)
  <2> SUFFICES ASSUME NEW s \in 1 .. (Arms + 1)
               PROVE  /\ InAt(p, n, s) \in Nat /\ StopAt(p, n) \in Nat
                      /\ InAt(p, n, s) <= StopAt(p, n)
    OBVIOUS
  <2>1. IsBlock(p, n, s) /\ s \in Slots(p.kind[n])
    BY <1>2 DEF IsBlock
  <2>2. /\ InAt(p, n, s) \in Nat /\ OutAt(p, n, s) \in Nat /\ StopAt(p, n) \in Nat
        /\ InAt(p, n, s) <= OutAt(p, n, s) /\ OutAt(p, n, s) < StopAt(p, n)
    BY <2>1, BlockSpan, BlockWithin, StatementSpan
  <2> QED BY <2>2
<1>4. CASE i = Arms
  <2>1. Arms + 1 \in 1 .. (Arms + 1)
    BY ArmsAssumption
  <2> QED BY <1>3, <1>4, <2>1
<1>5. CASE i # Arms
  <2> DEFINE j == i + 1
  <2>1. j \in 1 .. Arms /\ j \in 1 .. (Arms + 1)
    BY <1>5, ArmsAssumption
  <2> HIDE DEF j
  <2>2. /\ Holds(Emit(p), TestAt(p, n, j), Condition(p, n, j))
        /\ InAt(p, n, j) = TestAt(p, n, j) + Len(Condition(p, n, j)) + 1
    BY <2>1, ConditionFrame
  <2>3. Condition(p, n, j) \in Seq(Instrs)
    BY <2>1, ArmsAssumption, ConditionIsCode
  <2>4. Len(Condition(p, n, j)) \in Nat /\ TestAt(p, n, j) \in Nat
    BY <2>2, <2>3 DEF Holds
  <2>5. TestAt(p, n, j) <= InAt(p, n, j)
    BY <2>2, <2>4
  <2>6. InAt(p, n, j) \in Nat /\ StopAt(p, n) \in Nat /\ InAt(p, n, j) <= StopAt(p, n)
    BY <1>3, <2>1
  <2>7. TestAt(p, n, j) <= StopAt(p, n)
    BY <2>4, <2>5, <2>6
  <2> QED BY <1>5, <2>7 DEF j
<1> QED BY <1>4, <1>5

\* What a condition decides, in either engine.
LEMMA SimDecides ==
  ASSUME IsTree(prog), NEW a, NEW n \in Stmts(prog), prog.kind[n] \in {"if", "switch", "while"},
         NEW i \in 1 .. Arms, prog.kind[n] = "while" => i = 1, NEW holds \in BOOLEAN,
         Decide(n, i, holds, NoError), NEW tr, NEW it, NEW er, NEW l, NEW last, NEW t, NEW its,
         DOMAIN t = Temps, InStep(prog, prog.parent[n], prog.slot[n], it, its),
         t["cond"] # 0 <=> holds,
         On(prog, tr, a, TestAt(prog, n, i) + Len(Condition(prog, n, i)),
            HandlersIn(prog, prog.parent[n], prog.slot[n]), last, t, its, Len(tr))
  PROVE  Sim(prog, tr, a, ctl', flow', er, l, it)
<1> DEFINE p == prog
           q == prog.parent[n]
           r == prog.slot[n]
           H == HandlersIn(prog, q, r)
           m == Len(tr)
           k == TestAt(prog, n, i) + Len(Condition(prog, n, i))
           to == OutAt(prog, n, i) + 1
           stop == StopAt(prog, n)
           x == Past(prog, n, i)
           in == InAt(prog, n, i)
<1>1. /\ Has(Emit(prog), k, JumpIfFalse(x)) /\ in = k + 1 /\ Has(Emit(prog), to, Label(x))
      /\ prog.kind[n] = "while" => to + 1 = stop
      /\ prog.kind[n] # "while" =>
              to + 1 = IF i = Arms THEN InAt(prog, n, Arms + 1) ELSE TestAt(prog, n, i + 1)
      /\ i \in Slots(prog.kind[n])
  BY ConditionFrame
<1>2. IsBlock(prog, n, i)
  BY <1>1 DEF IsBlock
<1>3. /\ in \in Nat /\ OutAt(prog, n, i) \in Nat /\ stop \in Nat /\ in <= OutAt(prog, n, i)
      /\ OutAt(prog, n, i) < stop
  BY <1>1, <1>2, BlockSpan, BlockWithin, StatementSpan
<1>4. to \in Nat /\ to <= stop /\ in <= stop
  BY <1>3
<1>5. Beyond(H, to) = H /\ Beyond(H, in) = H
  BY <1>3, <1>4, BeyondStays
<1>6. On(p, tr, a, k, H, last, t, its, m)
  OBVIOUS
<1>7. /\ t["cond"] = 0 => On(p, tr, a, to, H, last, t, its, m)
      /\ t["cond"] # 0 => On(p, tr, a, in, H, last, t, its, m)
  <2>1. IsTree(p) /\ Has(Emit(p), k, JumpIfFalse(x)) /\ Has(Emit(p), to, Label(x)) /\ in = k + 1
        /\ On(p, tr, a, k, H, last, t, its, m) /\ Beyond(H, to) = H /\ Beyond(H, in) = H
    BY <1>1, <1>5, <1>6
  <2> HIDE DEF p, H, m, k, to, x, in
  <2>2. /\ t["cond"] = 0 => On(p, tr, a, to, Beyond(H, to), last, t, its, m)
        /\ t["cond"] # 0 => On(p, tr, a, k + 1, Beyond(H, k + 1), last, t, its, m)
    BY <2>1, OnJumpIfFalse
  <2> QED BY <2>1, <2>2
<1>8. prog.kind[n] # "for" /\ prog.kind[n] # "try"
  OBVIOUS
<1>9. \A s : InStep(prog, n, s, it, its) /\ HandlersIn(prog, n, s) = H
  <2> SUFFICES ASSUME NEW s PROVE InStep(prog, n, s, it, its) /\ HandlersIn(prog, n, s) = H
    OBVIOUS
  <2>1. InStep(prog, n, s, it, its)
    BY <1>8, InStepIn
  <2>2. HandlersIn(prog, n, s) = H \cup {}
    BY <1>8, HandlersInside
  <2> QED BY <2>1, <2>2
<1>10. CASE holds
  <2>1. flow' = "none" /\ ctl' = Enter(n, i)
    BY <1>10 DEF Decide, Proceed
  <2>2. Stands(prog, tr, a, n, i, InAt(prog, n, i), it, last, t, its)
    BY <1>7, <1>9, <1>10 DEF Stands
  <2> QED BY <1>2, <2>1, <2>2, SimEnter
<1>11. CASE ~ holds
  <2>1. On(prog, tr, a, to, H, last, t, its, m)
    BY <1>7, <1>11
  <2>2. to + 1 \in Nat /\ to + 1 <= stop
    <3>1. to + 1 \in Nat
      BY <1>4
    <3>2. CASE prog.kind[n] = "while"
      BY <1>1, <1>3, <3>2
    <3>3. CASE prog.kind[n] # "while"
      BY <1>1, <1>3, <3>1, <3>3, NextInside
    <3> QED BY <3>1, <3>2, <3>3
  <2>3. Beyond(H, to + 1) = H
    BY <2>2, BeyondStays
  <2>4. On(prog, tr, a, to + 1, H, last, t, its, m)
    <3>1. On(p, tr, a, to, H, last, t, its, m) /\ Has(Emit(p), to, Label(x))
      BY <1>1, <2>1
    <3> HIDE DEF p, H, m, to, x
    <3>2. On(p, tr, a, to + 1, Beyond(H, to + 1), last, t, its, m)
      BY <3>1, OnLabel
    <3> QED BY <2>3, <3>2 DEF p
  <2> HIDE DEF to
  <2>5. CASE prog.kind[n] = "while"
    <3>1. Complete(n, "none", NoError)
      BY <1>11, <2>5 DEF Decide
    <3>2. ctl' = After(n) /\ flow' = "none"
      BY <3>1, CompleteIs
    <3>3. to + 1 = StopAt(prog, n)
      BY <1>1, <2>5
    <3>4. Stands(prog, tr, a, q, r, StopAt(prog, n), it, last, t, its)
      BY <2>4, <3>3 DEF Stands
    <3> QED BY <3>2, <3>4, SimAfter
  <2>6. CASE prog.kind[n] # "while" /\ i = Arms
    <3>1. flow' = "none" /\ ctl' = Enter(n, Arms + 1)
      BY <1>11, <2>6, ArmsAssumption DEF Decide, Proceed
    <3>2. to + 1 = InAt(prog, n, Arms + 1)
      BY <1>1, <2>6
    <3>3. Arms + 1 \in Slots(prog.kind[n])
      <4>1. prog.kind[n] \in Kinds /\ prog.kind[n] \in Branchings
        BY <2>6 DEF Kinds, Branchings
      <4> QED BY <4>1, SlotsOf, ArmsAssumption
    <3>4. IsBlock(prog, n, Arms + 1)
      BY <3>3 DEF IsBlock
    <3> DEFINE s == Arms + 1
    <3> HIDE DEF s
    <3>5. Stands(prog, tr, a, n, s, InAt(prog, n, s), it, last, t, its)
      BY <1>9, <2>4, <3>2 DEF Stands, s
    <3> QED BY <3>1, <3>4, <3>5, SimEnter DEF s
  <2>7. CASE prog.kind[n] # "while" /\ i # Arms
    <3>1. flow' = "none" /\ ctl' = At("test", n, i + 1)
      <4>1. i < Arms
        BY <2>7, ArmsAssumption
      <4> QED BY <1>11, <2>7, <4>1 DEF Decide, Proceed
    <3>2. to + 1 = TestAt(prog, n, i + 1)
      BY <1>1, <2>7
    <3> DEFINE j == i + 1
    <3> HIDE DEF j
    <3>3. Stands(prog, tr, a, q, r, TestAt(prog, n, j), it, last, t, its)
      BY <2>4, <3>2 DEF Stands, j
    <3>4. Sim(prog, tr, a, At("test", n, j), "none", er, l, it)
      BY <2>7, <3>3, SimTests
    <3> QED BY <3>1, <3>4 DEF j
  <2> QED BY <2>5, <2>6, <2>7
<1> QED BY <1>10, <1>11

\* The instructions of a condition.
LEMMA ConditionIs ==
  ASSUME IsTree(prog), NEW n \in Stmts(prog), prog.kind[n] \in {"if", "switch", "while"},
         NEW i \in 1 .. Arms, prog.kind[n] = "while" => i = 1
  PROVE  LET c == Emit(prog)
             x == TestAt(prog, n, i)
             len == Len(Condition(prog, n, i))
         IN  /\ x \in Nat /\ x + len <= StopAt(prog, n)
             /\ prog.test[n] = "plain" =>
                  Has(c, x, Test(TestSite(n, i), "cond")) /\ len = 1
             /\ prog.test[n] # "plain" =>
                  /\ Has(c, x, Test(TestSite(n, i), "lhs"))
                  /\ Has(c, x + 1, Test(<<n, "rhs", i>>, "rhs"))
                  /\ Has(c, x + 1 + 1, BinaryLogical(prog.test[n]))
                  /\ len = 3
                  /\ prog.test[n] \in {"and", "or"}
<1> DEFINE c == Emit(prog)
           x == TestAt(prog, n, i)
           cond == Condition(prog, n, i)
           len == Len(cond)
<1>1. /\ Holds(c, x, cond) /\ InAt(prog, n, i) = x + len + 1 /\ i \in Slots(prog.kind[n])
  BY ConditionFrame
<1>2. cond \in Seq(Instrs)
  BY ConditionIsCode
<1>3. x \in Nat /\ len \in Nat
  BY <1>1, <1>2 DEF Holds
<1>4. x + len <= StopAt(prog, n)
  <2>1. /\ InAt(prog, n, i) \in Nat /\ OutAt(prog, n, i) \in Nat /\ StopAt(prog, n) \in Nat
        /\ InAt(prog, n, i) <= OutAt(prog, n, i) /\ OutAt(prog, n, i) < StopAt(prog, n)
    BY <1>1, BlockSpan, BlockWithin, StatementSpan DEF IsBlock
  <2> QED BY <1>1, <1>3, <2>1
<1>5. prog.test[n] \in {"plain", "and", "or"} /\ (prog.kind[n] = "switch" => prog.test[n] = "plain")
  BY DEF IsTree, Tests
<1>6. CASE prog.test[n] = "plain"
  <2>1. cond = << Test(TestSite(n, i), "cond") >>
    BY <1>6 DEF Condition, LowerCondition, TestSite
  <2>2. Has(c, x, Test(TestSite(n, i), "cond"))
    BY <1>1, <2>1, HoldsOne
  <2>3. len = 1
    BY <2>1
  <2> QED BY <1>3, <1>4, <1>6, <2>2, <2>3
<1>7. CASE prog.test[n] # "plain"
  <2> DEFINE u == Test(TestSite(n, i), "lhs")
             v == Test(<<n, "rhs", i>>, "rhs")
             w == BinaryLogical(prog.test[n])
  <2>1. cond = << u, v, w >>
    BY <1>5, <1>7 DEF Condition, LowerCondition, TestSite
  <2> HIDE DEF u, v, w
  <2>2. \A j \in 1 .. 3 : x + j - 1 \in DOMAIN c /\ c[x + j - 1] = << u, v, w >>[j]
    BY <1>1, <2>1 DEF Holds
  <2>3. x + 1 - 1 = x /\ x + 2 - 1 = x + 1 /\ x + 3 - 1 = x + 1 + 1
    BY <1>3
  <2>4. Has(c, x, u) /\ Has(c, x + 1, v) /\ Has(c, x + 1 + 1, w)
    BY <2>2, <2>3 DEF Has
  <2>5. len = 3
    BY <2>1
  <2> QED BY <1>3, <1>4, <1>5, <1>7, <2>4, <2>5 DEF u, v, w
<1> QED BY <1>6, <1>7

\* A condition, or the left operand of one, in either engine.
LEMMA SimEvaluateTest ==
  ASSUME HostErrors = {}, InterpTypeOK, NEW a, NEW n, NEW i, NEW o \in Values({0, 1}),
         EvaluateTest(n, i, o), Sim(prog, trace, a, ctl, flow, error, lhs, iter)
  PROVE  Sim(prog, trace', a, ctl', flow', error', lhs', iter')
<1> DEFINE p == prog
           q == prog.parent[n]
           r == prog.slot[n]
           H == HandlersIn(prog, q, r)
           site == TestSite(n, i)
           m == Len(trace)
           x == TestAt(prog, n, i)
           tr == trace'
           e == o.error
           v == o.value
           dst == IF prog.test[n] = "plain" THEN "cond" ELSE "lhs"
<1>1. IsTree(prog)
  BY DEF InterpTypeOK
<1>2. /\ ctl = At("test", n, i) /\ Record(site, o) /\ prog' = prog /\ iter' = iter
      /\ Heard(o) = NoError
      /\ \/ Fails(n, o)
         \/ e = NoError /\ prog.test[n] = "plain" /\ Decide(n, i, v # 0, Heard(o))
         \/ /\ e = NoError /\ prog.test[n] # "plain" /\ lhs' = v
            /\ ctl' = At("rhs", n, i) /\ flow' = "none"
  BY NothingHeard DEF EvaluateTest, Proceed
<1>3. n \in Stmts(prog) /\ i \in 1 .. Arms /\ prog.kind[n] \in {"if", "switch", "while"}
  BY <1>2, AtCondition
<1>4. PICK last, t, its : /\ Stands(prog, trace, a, q, r, x, iter, last, t, its)
                          /\ prog.kind[n] = "while" => i = 1
  BY <1>2, AtCondition
<1>5. DOMAIN t = Temps /\ InStep(prog, q, r, iter, its)
  BY <1>4 DEF Stands
<1>6. On(prog, trace', a, x, H, last, t, its, m)
  BY <1>2, <1>4, StandsLonger
<1>7. /\ Len(trace') = m + 1 /\ AsksFor(trace', m, site)
      /\ trace'[m + 1].error = e /\ trace'[m + 1].value = v /\ m \in Nat
  BY <1>2, RecordIs
<1>8. /\ x \in Nat /\ x + Len(Condition(prog, n, i)) <= StopAt(prog, n)
      /\ Has(Emit(prog), x, Test(site, dst))
      /\ prog.test[n] = "plain" => Len(Condition(prog, n, i)) = 1
      /\ prog.test[n] # "plain" => Len(Condition(prog, n, i)) = 3
  BY <1>1, <1>3, <1>4, ConditionIs
<1>9. Beyond(H, x + 1) = H
  <2>1. x + 1 \in Nat /\ x + 1 <= StopAt(prog, n)
    <3>1. StopAt(prog, n) \in Nat
      BY <1>1, <1>3, StatementSpan
    <3> DEFINE d == StopAt(prog, n)
               len == Len(Condition(prog, n, i))
    <3>2. x \in Nat /\ d \in Nat /\ x + len <= d /\ (len = 1 \/ len = 3)
      BY <1>8, <3>1
    <3> HIDE DEF x, d, len
    <3>3. x + 1 <= d
      BY <3>2
    <3> QED BY <3>2, <3>3 DEF d
  <2> QED BY <1>1, <1>3, <2>1, BeyondStays
<1> DEFINE t2 == [t EXCEPT ![dst] = v]
<1>11. /\ e = NoError => On(p, tr, a, x + 1, H, last, t2, its, m + 1)
       /\ e # NoError => Off(p, tr, a, x, H, last, t, its, m + 1, e)
  <2>1. /\ On(p, tr, a, x, H, last, t, its, m) /\ Has(Emit(p), x, Test(site, dst))
        /\ AsksFor(tr, m, site) /\ tr[m + 1].error = e /\ tr[m + 1].value = v
    BY <1>6, <1>7, <1>8
  <2> HIDE DEF p, H, site, m, tr, e, v, x, dst
  <2>2. /\ e = NoError => On(p, tr, a, x + 1, Beyond(H, x + 1), last,
                             [t EXCEPT ![dst] = tr[m + 1].value], its, m + 1)
        /\ e # NoError => Off(p, tr, a, x, H, last, t, its, m + 1, e)
    BY <2>1, OnTest
  <2>3. t2 = [t EXCEPT ![dst] = tr[m + 1].value]
    BY <2>1
  <2> HIDE DEF t2
  <2> QED BY <1>9, <2>2, <2>3
<1>10. DOMAIN t2 = Temps /\ t2[dst] = v
  <2>1. dst \in Temps
    BY DEF Temps
  <2> QED BY <1>5, <2>1
<1> HIDE DEF t2
<1>12. CASE Fails(n, o)
  <2>1. e # NoError
    BY <1>12 DEF Fails
  <2>2. Off(prog, trace', a, x, H, last, t, its, Len(trace'), o.error)
    BY <1>7, <1>11, <2>1
  <2> QED BY <1>2, <1>3, <1>5, <1>12, <2>2, SimRaises
<1>13. CASE e = NoError /\ prog.test[n] = "plain" /\ Decide(n, i, v # 0, Heard(o))
  <2>1. On(prog, tr, a, x + Len(Condition(prog, n, i)), H, last, t2, its, Len(tr))
    BY <1>7, <1>8, <1>11, <1>13
  <2>2. Decide(n, i, v # 0, NoError)
    BY <1>2, <1>13
  <2> DEFINE holds == v # 0
             it == iter'
             er == error'
             l == lhs'
  <2>3. t2["cond"] # 0 <=> holds
    BY <1>10, <1>13
  <2>4. InStep(prog, q, r, it, its) /\ holds \in BOOLEAN /\ Decide(n, i, holds, NoError)
    BY <1>2, <1>5, <2>2
  <2> HIDE DEF holds, it, er, l, tr, v, e
  <2>5. Sim(prog, tr, a, ctl', flow', er, l, it)
    BY <1>1, <1>3, <1>4, <1>10, <2>1, <2>3, <2>4, SimDecides
  <2> QED BY <2>5 DEF it, er, l, tr
<1>14. CASE /\ e = NoError /\ prog.test[n] # "plain" /\ lhs' = v
            /\ ctl' = At("rhs", n, i) /\ flow' = "none"
  <2> DEFINE ct == At("rhs", n, i)
             it == iter'
             er == error'
             l == lhs'
  <2>0. ct.at = "rhs" /\ ct.node = n /\ ct.arm = i
    BY AtIs
  <2>1. BlockAt(prog, ct)[1] = q /\ BlockAt(prog, ct)[2] = r
    BY <2>0 DEF BlockAt
  <2>2. PlaceAt(prog, ct) = x + 1
    BY <2>0 DEF PlaceAt
  <2>3. Stands(prog, tr, a, q, r, x + 1, it, last, t2, its)
    BY <1>2, <1>5, <1>7, <1>10, <1>11, <1>14 DEF Stands
  <2>4. t2["lhs"] = l
    BY <1>10, <1>14
  <2>5. ctl' = ct
    BY <1>14
  <2> HIDE DEF ct, it, er, l, q, r, x
  <2>6. Calm(prog, tr, a, ct, l, it)
    <3>1. Stands(prog, tr, a, BlockAt(prog, ct)[1], BlockAt(prog, ct)[2], PlaceAt(prog, ct), it, last, t2, its)
      BY <2>1, <2>2, <2>3
    <3>2. ct.at # "bind" /\ prog.test[ct.node] # "plain" /\ (prog.kind[ct.node] = "while" => ct.arm = 1)
      BY <1>4, <1>14, <2>0
    <3> QED BY <2>4, <3>1, <3>2 DEF Calm
  <2>7. Sim(prog, tr, a, ct, "none", er, l, it)
    BY <2>6 DEF Sim
  <2> QED BY <1>14, <2>5, <2>7 DEF it, er, l
<1> QED BY <1>2, <1>12, <1>13, <1>14

\* The right operand of a condition, in either engine.
LEMMA SimEvaluateRhs ==
  ASSUME HostErrors = {}, InterpTypeOK, NEW a, NEW n, NEW i, NEW o \in Values({0, 1}),
         EvaluateRhs(n, i, o), Sim(prog, trace, a, ctl, flow, error, lhs, iter)
  PROVE  Sim(prog, trace', a, ctl', flow', error', lhs', iter')
<1> DEFINE p == prog
           q == prog.parent[n]
           r == prog.slot[n]
           H == HandlersIn(prog, q, r)
           site == <<n, "rhs", i>>
           m == Len(trace)
           x == TestAt(prog, n, i)
           y == x + 1
           z == y + 1
           d == StopAt(prog, n)
           op == prog.test[n]
           tr == trace'
           e == o.error
           v == o.value
           holds == IF op = "and" THEN lhs # 0 /\ v # 0 ELSE lhs # 0 \/ v # 0
<1>1. IsTree(prog)
  BY DEF InterpTypeOK
<1>2. /\ ctl = At("rhs", n, i) /\ Record(site, o) /\ prog' = prog /\ iter' = iter
      /\ Heard(o) = NoError
      /\ \/ Fails(n, o)
         \/ e = NoError /\ Decide(n, i, holds, Heard(o))
  BY NothingHeard DEF EvaluateRhs
<1>3. n \in Stmts(prog) /\ i \in 1 .. Arms /\ prog.kind[n] \in {"if", "switch", "while"}
  BY <1>2, AtCondition
<1>4. PICK last, t, its : /\ Stands(prog, trace, a, q, r, y, iter, last, t, its)
                          /\ t["lhs"] = lhs /\ op # "plain"
                          /\ prog.kind[n] = "while" => i = 1
  BY <1>2, AtCondition
<1>5. DOMAIN t = Temps /\ InStep(prog, q, r, iter, its)
  BY <1>4 DEF Stands
<1>6. On(prog, trace', a, y, H, last, t, its, m)
  BY <1>2, <1>4, StandsLonger
<1>7. /\ Len(trace') = m + 1 /\ AsksFor(trace', m, site)
      /\ trace'[m + 1].error = e /\ trace'[m + 1].value = v /\ m \in Nat
  BY <1>2, RecordIs
<1>8. /\ x \in Nat /\ x + Len(Condition(prog, n, i)) <= d
      /\ Has(Emit(prog), y, Test(site, "rhs"))
      /\ Has(Emit(prog), z, BinaryLogical(op))
      /\ Len(Condition(prog, n, i)) = 3
      /\ op \in {"and", "or"}
  BY <1>1, <1>3, <1>4, ConditionIs
<1>9. /\ Beyond(H, z) = H /\ Beyond(H, z + 1) = H
      /\ x + Len(Condition(prog, n, i)) = z + 1
  <2>1. d \in Nat
    BY <1>1, <1>3, StatementSpan
  <2>2. x \in Nat /\ x + 3 <= d /\ x + Len(Condition(prog, n, i)) = x + 3
    BY <1>8
  <2> HIDE DEF x, d
  <2>3. z \in Nat /\ z + 1 \in Nat /\ z <= d /\ z + 1 <= d /\ z + 1 = x + 3
    BY <2>1, <2>2
  <2> HIDE DEF z
  <2>4. Beyond(H, z) = H /\ Beyond(H, z + 1) = H
    BY <1>1, <1>3, <2>3, BeyondStays DEF d
  <2> QED BY <2>2, <2>3, <2>4
<1> DEFINE t2 == [t EXCEPT !["rhs"] = v]
           t3 == [t2 EXCEPT !["cond"] = BothHold(op, t2)]
<1>11. /\ e = NoError => On(p, tr, a, z, H, last, t2, its, m + 1)
       /\ e # NoError => Off(p, tr, a, y, H, last, t, its, m + 1, e)
  <2>1. /\ On(p, tr, a, y, H, last, t, its, m) /\ Has(Emit(p), y, Test(site, "rhs"))
        /\ AsksFor(tr, m, site) /\ tr[m + 1].error = e /\ tr[m + 1].value = v
    BY <1>6, <1>7, <1>8
  <2>0. z = y + 1
    OBVIOUS
  <2> HIDE DEF p, H, site, m, tr, e, v, x, y, z
  <2>2. /\ e = NoError => On(p, tr, a, y + 1, Beyond(H, y + 1), last,
                             [t EXCEPT !["rhs"] = tr[m + 1].value], its, m + 1)
        /\ e # NoError => Off(p, tr, a, y, H, last, t, its, m + 1, e)
    BY <2>1, OnTest
  <2>3. t2 = [t EXCEPT !["rhs"] = tr[m + 1].value]
    BY <2>1
  <2> HIDE DEF t2
  <2> QED BY <1>9, <2>0, <2>2, <2>3
<1>10. /\ DOMAIN t2 = Temps /\ t2["rhs"] = v /\ t2["lhs"] = lhs
       /\ DOMAIN t3 = Temps /\ t3["cond"] = BothHold(op, t2)
  <2>1. "rhs" \in Temps /\ "lhs" \in Temps /\ "cond" \in Temps
    BY DEF Temps
  <2>2. DOMAIN t2 = Temps /\ t2["rhs"] = v /\ t2["lhs"] = lhs
    BY <1>4, <1>5, <2>1
  <2> HIDE DEF t2
  <2> QED BY <2>1, <2>2
<1>15. e = NoError => On(p, tr, a, z + 1, H, last, t3, its, m + 1)
  <2>1. Has(Emit(p), z, BinaryLogical(op)) /\ op \in {"and", "or"}
    BY <1>8
  <2> DEFINE m1 == m + 1
  <2>2. e = NoError => On(p, tr, a, z, H, last, t2, its, m1)
    BY <1>11
  <2>3. Beyond(H, z + 1) = H
    BY <1>9
  <2> HIDE DEF p, tr, z, H, t2, t3, m, m1, e, op
  <2>4. e = NoError => On(p, tr, a, z + 1, Beyond(H, z + 1), last,
                          [t2 EXCEPT !["cond"] = BothHold(op, t2)], its, m1)
    BY <2>1, <2>2, OnLogical DEF p
  <2>5. e = NoError => On(p, tr, a, z + 1, Beyond(H, z + 1), last, t3, its, m1)
    BY <2>4 DEF t3
  <2> QED BY <2>3, <2>5 DEF m1
<1> HIDE DEF t2, t3
<1>16. t3["cond"] # 0 <=> holds
  <2> HIDE DEF v
  <2> QED BY <1>8, <1>10 DEF BothHold
<1>12. CASE Fails(n, o)
  <2>1. e # NoError
    BY <1>12 DEF Fails
  <2>2. Off(prog, trace', a, y, H, last, t, its, Len(trace'), o.error)
    BY <1>7, <1>11, <2>1
  <2> QED BY <1>2, <1>3, <1>5, <1>12, <2>2, SimRaises
<1>13. CASE e = NoError /\ Decide(n, i, holds, Heard(o))
  <2>1. On(prog, tr, a, x + Len(Condition(prog, n, i)), H, last, t3, its, Len(tr))
    BY <1>7, <1>9, <1>13, <1>15
  <2>2. Decide(n, i, holds, NoError)
    BY <1>2, <1>13
  <2> DEFINE it == iter'
             er == error'
             l == lhs'
  <2>4. InStep(prog, q, r, it, its) /\ holds \in BOOLEAN
    BY <1>2, <1>5
  <2> HIDE DEF holds, it, er, l, tr, v, e
  <2>5. Sim(prog, tr, a, ctl', flow', er, l, it)
    BY <1>1, <1>3, <1>4, <1>10, <1>16, <2>1, <2>2, <2>4, SimDecides
  <2> QED BY <2>5 DEF it, er, l, tr
<1> QED BY <1>2, <1>12, <1>13

\* The positions inside the code of a `for`, and the handlers there.
LEMMA ForSpan ==
  ASSUME NEW p, IsTree(p), NEW n \in Stmts(p), p.kind[n] = "for"
  PROVE  LET b == StartAt(p, n)
             H == HandlersIn(p, p.parent[n], p.slot[n])
         IN  /\ b + 1 + 1 = b + 2 /\ b + 2 + 1 = b + 3 /\ b + 3 + 1 = b + 4
             /\ b + 4 + 1 = b + 5 /\ b + 5 + 1 = b + 6
             /\ \A j \in 1 .. 6 : Beyond(H, b + j) = H
             /\ Beyond(H, EndAt(p, n)) = H /\ Beyond(H, EndAt(p, n) + 1) = H
             /\ HandlersIn(p, n, 1) = H
<1> DEFINE b == StartAt(p, n)
           d == StopAt(p, n)
           e == EndAt(p, n)
           o == OutAt(p, n, 1)
           H == HandlersIn(p, p.parent[n], p.slot[n])
<1>1. /\ b \in Nat /\ d \in Nat /\ InAt(p, n, 1) = b + 6 /\ InAt(p, n, 1) <= o /\ o < d
      /\ o \in Nat /\ e = o + 1 /\ d = e + 1
  BY ForIs, BlockSpan, BlockWithin, StatementSpan, LoopIs DEF IsBlock, EndAt, Loops
<1> HIDE DEF b, d, e, o
<1>2. \A j \in 1 .. 6 : b + j \in Nat /\ b + j <= d
  BY <1>1
<1>3. e \in Nat /\ e <= d /\ e + 1 \in Nat /\ e + 1 <= d
  BY <1>1
<1>4. b + 1 + 1 = b + 2 /\ b + 2 + 1 = b + 3 /\ b + 3 + 1 = b + 4
      /\ b + 4 + 1 = b + 5 /\ b + 5 + 1 = b + 6
  BY <1>1
<1>5. \A k \in Nat : k <= d => Beyond(H, k) = H
  BY BeyondStays DEF d
<1>6. HandlersIn(p, n, 1) = H \cup {}
  BY HandlersInside
<1> HIDE DEF H
<1>7. /\ \A j \in 1 .. 6 : Beyond(H, b + j) = H
      /\ Beyond(H, e) = H /\ Beyond(H, e + 1) = H
  BY <1>2, <1>3, <1>5
<1> QED BY <1>4, <1>6, <1>7 DEF b, e, H

\* The loop variable is to take its next element, in either engine.
LEMMA AtElement ==
  ASSUME InterpTypeOK, NEW a, NEW n, ctl = At("bind", n, 0),
         Sim(prog, trace, a, ctl, flow, error, lhs, iter)
  PROVE  /\ n \in Stmts(prog) /\ prog.kind[n] = "for"
         /\ \E last, t, i :
              /\ Stands(prog, trace, a, prog.parent[n], prog.slot[n], StartAt(prog, n) + 1,
                        iter, last, t, i)
              /\ ForSite(n) \in DOMAIN i
<1>1. ctl.at = "bind" /\ ctl.node = n
  BY AtIs
<1>2. flow = "none"
  BY <1>1 DEF Sim
<1>3. Calm(prog, trace, a, ctl, lhs, iter)
  BY <1>2 DEF Sim
<1>4. BlockAt(prog, ctl)[1] = prog.parent[n] /\ BlockAt(prog, ctl)[2] = prog.slot[n]
  BY <1>1 DEF BlockAt
<1>5. PlaceAt(prog, ctl) = StartAt(prog, n) + 1
  BY <1>1 DEF PlaceAt
<1>6. n \in Stmts(prog) /\ prog.kind[n] = "for"
  BY PlacesOf DEF InterpTypeOK, FlowOK
<1> QED BY <1>1, <1>3, <1>4, <1>5, <1>6 DEF Calm

\* The machine asks for an element.
LEMMA OnAsks ==
  ASSUME NEW p, IsTree(p), NEW n \in Stmts(p), p.kind[n] = "for", NEW tr, NEW a, NEW last, NEW t,
         NEW i, NEW m, ForSite(n) \in DOMAIN i, DOMAIN t = Temps,
         On(p, tr, a, StartAt(p, n) + 1, HandlersIn(p, p.parent[n], p.slot[n]), last, t, i, m)
  PROVE  \E u : /\ DOMAIN u = Temps
                /\ i[ForSite(n)].cursor < i[ForSite(n)].len =>
                     On(p, tr, a, StartAt(p, n) + 4, HandlersIn(p, p.parent[n], p.slot[n]), last, u, i, m)
                /\ ~ (i[ForSite(n)].cursor < i[ForSite(n)].len) =>
                     On(p, tr, a, StopAt(p, n), HandlersIn(p, p.parent[n], p.slot[n]), last, u, i, m)
<1> DEFINE b == StartAt(p, n)
           H == HandlersIn(p, p.parent[n], p.slot[n])
           f == ForSite(n)
           more == i[f].cursor < i[f].len
           u == [t EXCEPT !["cond"] = IF i[f].cursor < i[f].len THEN 1 ELSE 0]
           e == EndAt(p, n)
           c == Emit(p)
           b1 == b + 1
           b2 == b + 2
           b3 == b + 3
           b4 == b + 4
<1>1. /\ Has(c, b1, Label(HeadLabel(n))) /\ Has(c, b2, IterHasNext(f))
      /\ Has(c, b3, JumpIfFalse(End(n))) /\ Has(c, e, Label(End(n)))
      /\ StopAt(p, n) = e + 1
  BY ForIs DEF EndAt
<1>2. /\ b1 + 1 = b2 /\ b2 + 1 = b3 /\ b3 + 1 = b4
      /\ \A j \in 1 .. 6 : Beyond(H, b + j) = H
      /\ Beyond(H, e) = H /\ Beyond(H, e + 1) = H
  BY ForSpan
<1>3. Beyond(H, b2) = H /\ Beyond(H, b3) = H /\ Beyond(H, b4) = H
  <2>1. 2 \in 1 .. 6 /\ 3 \in 1 .. 6 /\ 4 \in 1 .. 6
    OBVIOUS
  <2> QED BY <1>2, <2>1
<1>4. DOMAIN u = Temps /\ u["cond"] = IF more THEN 1 ELSE 0
  <2>1. "cond" \in Temps
    BY DEF Temps
  <2> QED BY <2>1
<1>5. On(p, tr, a, b1, H, last, t, i, m) /\ f \in DOMAIN i
  OBVIOUS
<1> HIDE DEF b, H, f, e, c, b1, b2, b3, b4
<1>6. On(p, tr, a, b2, H, last, t, i, m)
  BY <1>1, <1>2, <1>3, <1>5, OnLabel DEF c
<1>7. On(p, tr, a, b3, H, last, u, i, m)
  <2>1. On(p, tr, a, b2 + 1, Beyond(H, b2 + 1), last, u, i, m)
    BY <1>1, <1>5, <1>6, OnIterHasNext DEF c
  <2> HIDE DEF u
  <2> QED BY <1>2, <1>3, <2>1
<1> HIDE DEF u, more
<1>8. /\ more => On(p, tr, a, b4, H, last, u, i, m)
      /\ ~ more => On(p, tr, a, e, H, last, u, i, m)
  <2>1. /\ u["cond"] = 0 => On(p, tr, a, e, Beyond(H, e), last, u, i, m)
        /\ u["cond"] # 0 => On(p, tr, a, b3 + 1, Beyond(H, b3 + 1), last, u, i, m)
    BY <1>1, <1>7, OnJumpIfFalse DEF c
  <2> QED BY <1>2, <1>3, <1>4, <2>1
<1>9. ~ more => On(p, tr, a, e + 1, H, last, u, i, m)
  <2>1. ~ more => On(p, tr, a, e + 1, Beyond(H, e + 1), last, u, i, m)
    BY <1>1, <1>8, OnLabel DEF c
  <2> QED BY <1>2, <2>1
<1> QED BY <1>1, <1>4, <1>8, <1>9 DEF b, H, f, more, b4

\* Iterators that take an element stay in step.
LEMMA NextInStep ==
  ASSUME NEW p, NEW q, NEW r, NEW it, NEW i, NEW n \in Stmts(p),
         DOMAIN it = Stmts(p), InStep(p, q, r, it, i), ForSite(n) \in DOMAIN i
  PROVE  /\ InStep(p, q, r, [it EXCEPT ![n].cursor = @ + 1], [i EXCEPT ![ForSite(n)].cursor = @ + 1])
         /\ ForSite(n) \in DOMAIN [i EXCEPT ![ForSite(n)].cursor = @ + 1]
<1> DEFINE f == ForSite(n)
           j == [i EXCEPT ![f].cursor = @ + 1]
           jt == [it EXCEPT ![n].cursor = @ + 1]
           z == [it[n] EXCEPT !.cursor = @ + 1]
           y == [i[f] EXCEPT !.cursor = @ + 1]
<1>1. i[f] = it[n]
  BY DEF InStep
<1>2. \A x : ForSite(x) = f <=> x = n
  BY DEF ForSite
<1> HIDE DEF f
<1>3. DOMAIN j = DOMAIN i /\ \A x \in DOMAIN i : x # f => j[x] = i[x]
  OBVIOUS
<1>4. j[f] = y
  BY DEF f
<1>5. jt[n] = z /\ \A x \in Stmts(p) : x # n => jt[x] = it[x]
  OBVIOUS
<1>6. y = z
  BY <1>1
<1> HIDE DEF j, jt, y, z
<1>7. InStep(p, q, r, jt, j)
  BY <1>2, <1>3, <1>4, <1>5, <1>6 DEF InStep
<1> QED BY <1>3, <1>7 DEF f, j, jt

\* A for loop takes an element, in either engine.
LEMMA SimBindNext ==
  ASSUME HostErrors = {}, InterpTypeOK, NEW a, NEW n, BindNext(n),
         Sim(prog, trace, a, ctl, flow, error, lhs, iter)
  PROVE  Sim(prog, trace', a, ctl', flow', error', lhs', iter')
<1> DEFINE p == prog
           q == prog.parent[n]
           r == prog.slot[n]
           H == HandlersIn(prog, q, r)
           site == <<n, "bind", 0>>
           m == Len(trace)
           b == StartAt(prog, n)
           b4 == b + 4
           b5 == b + 5
           tr == trace'
           f == ForSite(n)
           c == Emit(prog)
<1>1. IsTree(prog) /\ DOMAIN iter = Stmts(prog) /\ iter \in [Stmts(prog) -> Cursors]
  BY DEF InterpTypeOK
<1>2. /\ ctl = At("bind", n, 0) /\ Record(site, Succeeded(iter[n].cursor + 1))
      /\ iter[n].cursor < iter[n].len
      /\ iter' = [iter EXCEPT ![n].cursor = @ + 1] /\ ctl' = Enter(n, 1) /\ flow' = "none"
  BY DEF BindNext, Proceed
<1>3. n \in Stmts(prog) /\ prog.kind[n] = "for"
  BY <1>2, AtElement
<1>4. PICK last, t, i : Stands(prog, trace, a, q, r, b + 1, iter, last, t, i) /\ f \in DOMAIN i
  BY <1>2, AtElement
<1>5. DOMAIN t = Temps /\ InStep(prog, q, r, iter, i)
  BY <1>4 DEF Stands
<1>6. On(prog, tr, a, b + 1, H, last, t, i, m)
  BY <1>2, <1>4, StandsLonger
<1>7. /\ Len(trace') = m + 1 /\ AsksFor(trace', m, site)
      /\ trace'[m + 1].error = NoError /\ trace'[m + 1].value = iter[n].cursor + 1
  BY <1>2, RecordIs DEF Succeeded
<1>8. i[f] = iter[n]
  BY <1>3, <1>4, <1>5 DEF InStep
<1>9. PICK u : DOMAIN u = Temps /\ On(prog, tr, a, b4, H, last, u, i, m)
  <2>1. \E u : /\ DOMAIN u = Temps
               /\ i[f].cursor < i[f].len => On(prog, tr, a, b4, H, last, u, i, m)
    BY <1>1, <1>3, <1>4, <1>5, <1>6, OnAsks
  <2> QED BY <1>2, <1>8, <2>1
<1>10. /\ Has(c, b4, IterNext(f)) /\ Has(c, b5, StoreBinding(site))
       /\ InAt(prog, n, 1) = b5 + 1 /\ b4 + 1 = b5 /\ 1 \in Slots(prog.kind[n])
       /\ Beyond(H, b5) = H /\ Beyond(H, b5 + 1) = H /\ HandlersIn(prog, n, 1) = H
  <2>1. 5 \in 1 .. 6 /\ 6 \in 1 .. 6
    OBVIOUS
  <2> QED BY <1>1, <1>3, <2>1, ForIs, ForSpan
<1> DEFINE u2 == [u EXCEPT !["elem"] = i[f].cursor + 1]
           i2 == [i EXCEPT ![f].cursor = @ + 1]
           v == iter[n].cursor + 1
<1>11. ~ (i[f].cursor >= i[f].len)
  <2>1. iter[n].cursor \in Nat /\ iter[n].len \in Nat
    BY <1>1, <1>3, InterpreterAssumption DEF Cursors
  <2> QED BY <1>2, <1>8, <2>1
<1>12. On(p, tr, a, b5, H, last, u2, i2, m)
  <2>1. /\ On(p, tr, a, b4, H, last, u, i, m) /\ Has(Emit(p), b4, IterNext(f)) /\ f \in DOMAIN i
        /\ ~ (i[f].cursor >= i[f].len) /\ Beyond(H, b5) = H /\ b4 + 1 = b5
    BY <1>4, <1>9, <1>10, <1>11
  <2> HIDE DEF p, tr, b4, b5, H, m, f
  <2>2. On(p, tr, a, b4 + 1, Beyond(H, b4 + 1), last, u2, i2, m)
    BY <2>1, OnIterNext
  <2> HIDE DEF u2, i2
  <2> QED BY <2>1, <2>2
<1>13. DOMAIN u2 = Temps /\ u2["elem"] = v
  <2>1. "elem" \in Temps
    BY DEF Temps
  <2> QED BY <1>8, <1>9, <2>1
<1> HIDE DEF u2
<1>14. On(p, tr, a, b5 + 1, H, last, u2, i2, m + 1)
  <2>1. /\ On(p, tr, a, b5, H, last, u2, i2, m) /\ Has(Emit(p), b5, StoreBinding(site))
        /\ AsksFor(tr, m, site) /\ tr[m + 1].error = NoError /\ tr[m + 1].value = u2["elem"]
        /\ Beyond(H, b5 + 1) = H
    BY <1>7, <1>10, <1>12, <1>13
  <2> HIDE DEF p, tr, b5, H, m, i2, site
  <2> QED BY <2>1, OnStoreBinding
<1>15. InStep(prog, q, r, iter', i2) /\ f \in DOMAIN i2
  <2> HIDE DEF q, r
  <2> QED BY <1>1, <1>2, <1>3, <1>4, <1>5, NextInStep
<1> HIDE DEF i2
<1>16. InStep(prog, n, 1, iter', i2)
  <2> DEFINE it == iter'
  <2>1. InStep(prog, q, r, it, i2)
    BY <1>15
  <2> HIDE DEF it
  <2> QED BY <1>1, <1>3, <1>15, <2>1, InStepIn DEF it
<1>17. Stands(prog, trace', a, n, 1, InAt(prog, n, 1), iter', last, u2, i2)
  BY <1>7, <1>10, <1>13, <1>14, <1>16 DEF Stands
<1>18. IsBlock(prog, n, 1)
  BY <1>3, <1>10 DEF IsBlock
<1> QED BY <1>1, <1>2, <1>17, <1>18, SimEnter

\* A for loop has no element left, in either engine.
LEMMA SimForEnds ==
  ASSUME HostErrors = {}, InterpTypeOK, NEW a, NEW n, ForEnds(n),
         Sim(prog, trace, a, ctl, flow, error, lhs, iter)
  PROVE  Sim(prog, trace', a, ctl', flow', error', lhs', iter')
<1> DEFINE q == prog.parent[n]
           r == prog.slot[n]
           H == HandlersIn(prog, q, r)
           m == Len(trace)
           b == StartAt(prog, n)
           f == ForSite(n)
<1>1. IsTree(prog) /\ iter \in [Stmts(prog) -> Cursors]
  BY DEF InterpTypeOK
<1>2. /\ ctl = At("bind", n, 0) /\ iter[n].cursor = iter[n].len
      /\ iter' = iter /\ trace' = trace /\ ctl' = After(n) /\ flow' = "none"
  <2>1. /\ ctl = At("bind", n, 0) /\ iter[n].cursor = iter[n].len
        /\ iter' = iter /\ trace' = trace /\ Complete(n, "none", queue)
    BY DEF ForEnds, Silent
  <2>2. queue = NoError
    BY NothingHeard
  <2> QED BY <2>1, <2>2, CompleteIs
<1>3. n \in Stmts(prog) /\ prog.kind[n] = "for"
  BY <1>2, AtElement
<1>4. PICK last, t, i : Stands(prog, trace, a, q, r, b + 1, iter, last, t, i) /\ f \in DOMAIN i
  BY <1>2, AtElement
<1>5. DOMAIN t = Temps /\ InStep(prog, q, r, iter, i) /\ On(prog, trace, a, b + 1, H, last, t, i, m)
  BY <1>4 DEF Stands
<1>6. i[f] = iter[n]
  BY <1>3, <1>4, <1>5 DEF InStep
<1>7. ~ (i[f].cursor < i[f].len)
  <2>1. iter[n].cursor \in Nat /\ iter[n].len \in Nat
    BY <1>1, <1>3, InterpreterAssumption DEF Cursors
  <2> QED BY <1>2, <1>6, <2>1
<1>8. PICK u : DOMAIN u = Temps /\ On(prog, trace, a, StopAt(prog, n), H, last, u, i, m)
  <2>1. \E u : /\ DOMAIN u = Temps
               /\ ~ (i[f].cursor < i[f].len) => On(prog, trace, a, StopAt(prog, n), H, last, u, i, m)
    BY <1>1, <1>3, <1>4, <1>5, OnAsks
  <2> QED BY <1>7, <2>1
<1>9. Stands(prog, trace', a, q, r, StopAt(prog, n), iter', last, u, i)
  BY <1>2, <1>5, <1>8 DEF Stands
<1> QED BY <1>1, <1>2, <1>3, <1>9, SimAfter

\* A block of a choice or of a try statement ends at the label behind the
\* statement, or with a jump to it.
LEMMA BlockHandsOn ==
  ASSUME NEW p, IsTree(p), NEW n \in Stmts(p), p.kind[n] \in Branchings \cup {"try"},
         NEW s \in Slots(p.kind[n])
  PROVE  \E y \in Nat :
           /\ Has(Emit(p), y, Label(End(n))) /\ y + 1 = StopAt(p, n)
           /\ OutAt(p, n, s) = y \/ Has(Emit(p), OutAt(p, n, s), Jump(End(n)))
           /\ p.kind[n] = "try" /\ s = 1 => CatchAt(p, n) <= y
<1>1. p.kind[n] \in Kinds
  BY DEF IsTree, Stmts
<1>2. CASE p.kind[n] = "try"
  <2> DEFINE y == OutAt(p, n, 2)
  <2>1. s = 1 \/ s = 2
    BY <1>1, <1>2, SlotsOf
  <2>2. /\ Has(Emit(p), OutAt(p, n, 1), Jump(End(n))) /\ Has(Emit(p), y, Label(End(n)))
        /\ StopAt(p, n) = y + 1 /\ InAt(p, n, 2) = CatchAt(p, n) + 1 + 1
        /\ 1 \in Slots(p.kind[n]) /\ 2 \in Slots(p.kind[n])
    BY <1>2, TryIs
  <2>3. y \in Nat /\ InAt(p, n, 2) <= y /\ CatchAt(p, n) \in Nat
    BY <1>2, <2>2, BlockSpan, CatchFirst DEF IsBlock
  <2>4. CatchAt(p, n) <= y
    BY <2>2, <2>3
  <2> QED BY <2>1, <2>2, <2>3, <2>4
<1>3. CASE p.kind[n] \in Branchings
  <2> DEFINE c == Emit(p)
             b == StartAt(p, n)
             k == FrameOf(p, n)
             stop == b + Len(Code(p, n))
             y == OutAt(p, n, Arms + 1)
  <2>1. Frame(p, c, n, b, k)
    BY FrameIs
  <2>2. stop = StopAt(p, n) /\ y = k.out[Arms + 1] /\ OutAt(p, n, s) = k.out[s]
    BY DEF StopAt, OutAt
  <2>3. Slots(p.kind[n]) = 1 .. (Arms + 1)
    BY <1>1, <1>3, SlotsOf
  <2>4. Arms + 1 \in 1 .. (Arms + 1) /\ (s = Arms + 1 \/ s \in 1 .. Arms)
    BY <2>3, ArmsAssumption
  <2>5. y \in Nat
    BY <2>3, <2>4, BlockSpan DEF IsBlock
  <2> HIDE DEF c, b, k, stop, y
  <2>6. ChoiceFrame(p, c, n, b, k, stop)
    BY <1>3, <2>1 DEF Frame, stop
  <2>7. /\ Has(c, k.out[Arms + 1], Label(End(n))) /\ stop = k.out[Arms + 1] + 1
        /\ \A i \in 1 .. Arms : Arm(c, Condition(p, n, i), n, i, BlockCode(p, n, i), k.test[i], k.in[i], k.out[i])
    BY <2>6 DEF ChoiceFrame
  <2>8. \A i \in 1 .. Arms : Has(c, k.out[i], Jump(End(n)))
    BY <2>7 DEF Arm
  <2>9. p.kind[n] # "try"
    BY <1>3 DEF Branchings
  <2>10. Has(c, y, Label(End(n))) /\ y + 1 = StopAt(p, n)
         /\ (OutAt(p, n, s) = y \/ Has(c, OutAt(p, n, s), Jump(End(n))))
    BY <2>2, <2>4, <2>7, <2>8
  <2> QED BY <2>5, <2>9, <2>10 DEF c
<1> QED BY <1>2, <1>3

\* A statement hands on the flow of one of its blocks, in either engine.
LEMMA SimHandOn ==
  ASSUME HostErrors = {}, InterpTypeOK, NEW a, NEW n \in Stmts(prog),
         NEW s \in Slots(prog.kind[n]), HandOn(n, s),
         Sim(prog, trace, a, ctl, flow, error, lhs, iter)
  PROVE  Sim(prog, trace', a, ctl', flow', error', lhs', iter')
<1> DEFINE p == prog
           q == prog.parent[n]
           r == prog.slot[n]
           H == HandlersIn(prog, q, r)
           G == HandlersIn(prog, n, s)
           m == Len(trace)
           o == OutAt(prog, n, s)
           stop == StopAt(prog, n)
           tr == trace
<1>1. IsTree(prog) /\ flow \in Flows
  BY DEF InterpTypeOK, FlowOK
<1>2. /\ ctl = At("end", n, s) /\ prog.kind[n] \in Branchings \cup {"try"}
      /\ ~ (prog.kind[n] = "try" /\ s = 1 /\ flow = "error")
      /\ trace' = trace /\ iter' = iter /\ lhs' = lhs /\ error' = error /\ flow' = flow
      /\ flow = "none" => ctl' = After(n)
      /\ flow # "none" => ctl' = At("end", q, r)
  <2>1. /\ ctl = At("end", n, s) /\ prog.kind[n] \in Branchings \cup {"try"}
        /\ ~ (prog.kind[n] = "try" /\ s = 1 /\ flow = "error")
        /\ trace' = trace /\ iter' = iter /\ lhs' = lhs
        /\ Complete(n, flow, queue) \/ Quit(n, flow, queue)
    BY DEF HandOn, Silent
  <2>2. queue = NoError
    BY NothingHeard
  <2>3. Complete(n, flow, NoError)
    BY <2>1, <2>2, QuitIs
  <2> QED BY <2>1, <2>3, CompleteIs
<1>3. CASE flow = "none"
  <2>1. PICK last, t, i : Stands(prog, trace, a, n, s, o, iter, last, t, i)
    BY <1>2, <1>3, AtEnd
  <2>2. DOMAIN t = Temps /\ InStep(prog, n, s, iter, i) /\ On(prog, trace, a, o, G, last, t, i, m)
    BY <2>1 DEF Stands
  <2>3. PICK y \in Nat : /\ Has(Emit(prog), y, Label(End(n))) /\ y + 1 = stop
                         /\ o = y \/ Has(Emit(prog), o, Jump(End(n)))
                         /\ prog.kind[n] = "try" /\ s = 1 => CatchAt(prog, n) <= y
    BY <1>1, <1>2, BlockHandsOn
  <2>4. y + 1 \in Nat /\ y <= stop /\ y + 1 <= stop
        /\ (prog.kind[n] = "try" /\ s = 1 => CatchAt(prog, n) <= y + 1)
    <3>1. prog.kind[n] = "try" => CatchAt(prog, n) \in Nat
      BY <1>1, CatchFirst
    <3> QED BY <2>3, <3>1
  <2>5. Beyond(G, y) = H /\ Beyond(G, y + 1) = H /\ Beyond(H, y + 1) = H
    BY <1>1, <2>3, <2>4, BeyondDrops, BeyondStays
  <2>6. On(p, tr, a, y + 1, H, last, t, i, m)
    <3>1. /\ IsTree(p) /\ On(p, tr, a, o, G, last, t, i, m) /\ Has(Emit(p), y, Label(End(n)))
          /\ (o = y \/ Has(Emit(p), o, Jump(End(n))))
          /\ Beyond(G, y) = H /\ Beyond(G, y + 1) = H /\ Beyond(H, y + 1) = H
      BY <1>1, <2>2, <2>3, <2>5
    <3> HIDE DEF p, tr, o, G, H, m
    <3>2. CASE o = y
      <4>1. On(p, tr, a, y + 1, Beyond(G, y + 1), last, t, i, m)
        BY <3>1, <3>2, OnLabel
      <4> QED BY <3>1, <4>1
    <3>3. CASE Has(Emit(p), o, Jump(End(n)))
      <4>1. On(p, tr, a, y, Beyond(G, y), last, t, i, m)
        BY <3>1, <3>3, OnJump
      <4>2. On(p, tr, a, y, H, last, t, i, m)
        BY <3>1, <4>1
      <4>3. On(p, tr, a, y + 1, Beyond(H, y + 1), last, t, i, m)
        BY <3>1, <4>2, OnLabel
      <4> QED BY <3>1, <4>3
    <3> QED BY <3>1, <3>2, <3>3
  <2>7. InStep(prog, q, r, iter, i)
    BY <1>1, <2>2, InStepOut
  <2>8. Stands(prog, trace', a, q, r, stop, iter', last, t, i)
    BY <1>2, <2>2, <2>3, <2>6, <2>7 DEF Stands
  <2> QED BY <1>1, <1>2, <1>3, <2>8, SimAfter
<1>4. CASE flow # "none"
  <2>1. flow \in {"error", "return", "break", "continue"}
    BY <1>1, <1>4 DEF Flows, Controls
  <2>2. prog.kind[n] \notin Loops
    BY <1>2 DEF Loops, Branchings
  <2> DEFINE f == flow
             e == error
             l == lhs
             it == iter
  <2>3. Sim(p, tr, a, At("end", n, s), f, e, l, it) /\ IsTree(p) /\ n \in Stmts(p) /\ s \in Slots(p.kind[n])
        /\ f \in {"error", "return", "break", "continue"}
        /\ ~ (p.kind[n] = "try" /\ s = 1 /\ f = "error") /\ p.kind[n] \notin Loops
    BY <1>1, <1>2, <2>1, <2>2
  <2>4. Sim(p, tr, a, At("end", p.parent[n], p.slot[n]), f, e, l, it)
    <3> HIDE DEF p, tr, f, e, l, it
    <3> QED BY <2>3, SimOut
  <2> QED BY <1>2, <1>4, <2>4
<1> QED BY <1>3, <1>4

\* A loop whose block has ended, or that a `continue` or a `break` in it goes
\* on with, in either engine.
LEMMA AtLoop ==
  ASSUME IsTree(prog), NEW a, NEW n \in Stmts(prog), prog.kind[n] \in Loops,
         ctl = At("end", n, 1), Sim(prog, trace, a, ctl, flow, error, lhs, iter)
  PROVE  LET H == HandlersIn(prog, prog.parent[n], prog.slot[n]) IN
         /\ flow \in {"none", "continue"} =>
              \E last, t, i :
                /\ DOMAIN t = Temps /\ InStep(prog, n, 1, iter, i)
                /\ On(prog, trace, a, HeadAt(prog, n), H, last, t, i, Len(trace))
         /\ flow = "break" =>
              \E last, t, i :
                /\ DOMAIN t = Temps /\ InStep(prog, n, 1, iter, i)
                /\ On(prog, trace, a, EndAt(prog, n), H, last, t, i, Len(trace))
<1> DEFINE p == prog
           q == prog.parent[n]
           r == prog.slot[n]
           H == HandlersIn(prog, q, r)
           m == Len(trace)
           tr == trace
           o == OutAt(prog, n, 1)
           h == HeadAt(prog, n)
<1>1. /\ Has(Emit(prog), h, Label(HeadLabel(n))) /\ Has(Emit(prog), o, Jump(HeadLabel(n)))
      /\ h \in Nat /\ h + 1 <= StopAt(prog, n) /\ 1 \in Slots(prog.kind[n])
  BY LoopIs
<1>2. Beyond(H, h) = H
  <2>1. h <= StopAt(prog, n)
    BY <1>1, StatementSpan
  <2> QED BY <1>1, <2>1, BeyondStays
<1>3. HandlersIn(prog, n, 1) = H
  <2>1. HandlersIn(prog, n, 1) = H \cup {}
    BY HandlersInside DEF Loops
  <2> QED BY <2>1
<1>4. LoopIn(prog, n, 1) = n
  BY <1>1, LoopInIs
<1>5. CASE flow = "none"
  <2>1. PICK last, t, i : Stands(prog, trace, a, n, 1, o, iter, last, t, i)
    BY <1>5, AtEnd
  <2>2. DOMAIN t = Temps /\ InStep(prog, n, 1, iter, i)
    BY <2>1 DEF Stands
  <2>3. On(p, tr, a, o, H, last, t, i, m)
    BY <1>3, <2>1 DEF Stands
  <2>4. On(p, tr, a, h, H, last, t, i, m)
    <3>1. /\ IsTree(p) /\ On(p, tr, a, o, H, last, t, i, m) /\ Has(Emit(p), h, Label(HeadLabel(n)))
          /\ Has(Emit(p), o, Jump(HeadLabel(n))) /\ Beyond(H, h) = H
      BY <1>1, <1>2, <2>3
    <3> HIDE DEF p, tr, H, m, o, h
    <3>2. On(p, tr, a, h, Beyond(H, h), last, t, i, m)
      BY <3>1, OnJump
    <3> QED BY <3>1, <3>2
  <2> QED BY <1>5, <2>2, <2>4
<1>6. CASE flow \in {"break", "continue"}
  <2>1. Leaving(prog, trace, a, n, 1, flow, iter)
    BY <1>6, AtEnd
  <2>2. \E last, t, i :
          /\ DOMAIN t = Temps /\ InStep(prog, n, 1, iter, i)
          /\ On(prog, trace, a, IF flow = "break" THEN EndAt(prog, n) ELSE h, H, last, t, i, m)
    BY <1>4, <2>1 DEF Leaving
  <2> QED BY <1>6, <2>2
<1> QED BY <1>5, <1>6

\* A loop goes on, in either engine.
LEMMA SimLoopTurns ==
  ASSUME InterpTypeOK, NEW a, NEW n \in Stmts(prog), LoopTurns(n),
         Sim(prog, trace, a, ctl, flow, error, lhs, iter)
  PROVE  Sim(prog, trace', a, ctl', flow', error', lhs', iter')
<1> DEFINE p == prog
           q == prog.parent[n]
           r == prog.slot[n]
           H == HandlersIn(prog, q, r)
           m == Len(trace)
           tr == trace
           h == HeadAt(prog, n)
           e == error'
           l == lhs'
           it == iter
<1>1. IsTree(prog)
  BY DEF InterpTypeOK
<1>2. /\ ctl = At("end", n, 1) /\ prog.kind[n] \in Loops /\ flow \in {"none", "continue"}
      /\ trace' = trace /\ iter' = iter /\ flow' = "none"
      /\ ctl' = IF prog.kind[n] = "for" THEN At("bind", n, 0) ELSE At("test", n, 1)
  BY DEF LoopTurns, Silent, Proceed
<1>3. PICK last, t, i : /\ DOMAIN t = Temps /\ InStep(prog, n, 1, iter, i)
                        /\ On(prog, trace, a, h, H, last, t, i, m)
  BY <1>1, <1>2, AtLoop
<1>4. InStep(prog, q, r, iter, i)
  BY <1>1, <1>3, InStepOut
<1>5. CASE prog.kind[n] = "for"
  <2>1. h = StartAt(prog, n) + 1
    BY <1>1, <1>5, LoopIs DEF Loops
  <2>2. ForSite(n) \in DOMAIN i
    BY <1>1, <1>3, <1>5, ForsInside DEF InStep
  <2>3. Stands(p, tr, a, p.parent[n], p.slot[n], StartAt(p, n) + 1, it, last, t, i)
    <3>1. On(prog, trace, a, StartAt(prog, n) + 1, H, last, t, i, m)
      BY <1>3, <2>1
    <3> QED BY <1>3, <1>4, <3>1 DEF Stands
  <2>4. Sim(p, tr, a, At("bind", n, 0), "none", e, l, it)
    <3> HIDE DEF p, tr, e, l, it
    <3> QED BY <2>2, <2>3, SimBinds
  <2> QED BY <1>2, <1>5, <2>4
<1>6. CASE prog.kind[n] # "for"
  <2>1. prog.kind[n] = "while"
    BY <1>2, <1>6 DEF Loops
  <2> DEFINE k == TestAt(prog, n, 1)
  <2>2. /\ Has(Emit(prog), h, Label(HeadLabel(n))) /\ h + 1 = k /\ h + 1 <= StopAt(prog, n)
        /\ h \in Nat
    <3>1. /\ h = StartAt(prog, n) /\ h \in Nat /\ h + 1 <= StopAt(prog, n)
          /\ Has(Emit(prog), h, Label(HeadLabel(n)))
      BY <1>1, <2>1, LoopIs DEF Loops
    <3>2. k = StartAt(prog, n) + 1
      BY <1>1, <2>1, HeadFrame
    <3> QED BY <3>1, <3>2
  <2>3. Beyond(H, h + 1) = H
    BY <1>1, <2>2, BeyondStays
  <2>4. On(p, tr, a, h + 1, H, last, t, i, m)
    <3>1. On(p, tr, a, h, H, last, t, i, m) /\ Has(Emit(p), h, Label(HeadLabel(n)))
          /\ Beyond(H, h + 1) = H
      BY <1>3, <2>2, <2>3
    <3> HIDE DEF p, tr, H, m, h
    <3>2. On(p, tr, a, h + 1, Beyond(H, h + 1), last, t, i, m)
      BY <3>1, OnLabel
    <3> QED BY <3>1, <3>2
  <2>5. Stands(p, tr, a, p.parent[n], p.slot[n], TestAt(p, n, 1), it, last, t, i)
    BY <1>3, <1>4, <2>2, <2>4 DEF Stands
  <2>6. Sim(p, tr, a, At("test", n, 1), "none", e, l, it)
    <3> HIDE DEF p, tr, e, l, it
    <3> QED BY <2>5, SimTests
  <2> QED BY <1>2, <1>6, <2>6
<1> QED BY <1>5, <1>6

\* A loop is left, in either engine.
LEMMA SimLoopLeft ==
  ASSUME HostErrors = {}, InterpTypeOK, NEW a, NEW n \in Stmts(prog), LoopLeft(n),
         Sim(prog, trace, a, ctl, flow, error, lhs, iter)
  PROVE  Sim(prog, trace', a, ctl', flow', error', lhs', iter')
<1> DEFINE p == prog
           q == prog.parent[n]
           r == prog.slot[n]
           H == HandlersIn(prog, q, r)
           m == Len(trace)
           tr == trace
           k == EndAt(prog, n)
           f == flow
           e == error
           l == lhs
           it == iter
<1>1. IsTree(prog)
  BY DEF InterpTypeOK
<1>2. /\ ctl = At("end", n, 1) /\ prog.kind[n] \in Loops /\ flow \in {"break", "return", "error"}
      /\ trace' = trace /\ iter' = iter /\ lhs' = lhs /\ error' = error
      /\ flow = "break" => flow' = "none" /\ ctl' = After(n)
      /\ flow # "break" => flow' = flow /\ ctl' = At("end", q, r)
  <2>1. /\ ctl = At("end", n, 1) /\ prog.kind[n] \in Loops /\ flow \in {"break", "return", "error"}
        /\ trace' = trace /\ iter' = iter /\ lhs' = lhs
        /\ flow = "break" => Complete(n, "none", queue)
        /\ flow # "break" => Quit(n, flow, queue)
    BY DEF LoopLeft, Silent
  <2>2. queue = NoError
    BY NothingHeard
  <2>3. /\ flow = "break" => Complete(n, "none", NoError)
        /\ flow # "break" => Complete(n, flow, NoError)
    BY <2>1, <2>2, QuitIs
  <2>4. error' = error /\ (flow = "break" => flow' = "none" /\ ctl' = After(n))
    BY <2>3, CompleteIs
  <2>5. flow # "break" => flow' = flow /\ ctl' = At("end", q, r)
    BY <2>1, <2>3, CompleteIs
  <2> QED BY <2>1, <2>4, <2>5
<1>3. CASE flow = "break"
  <2>1. PICK last, t, i : /\ DOMAIN t = Temps /\ InStep(prog, n, 1, iter, i)
                          /\ On(prog, trace, a, k, H, last, t, i, m)
    BY <1>1, <1>2, <1>3, AtLoop
  <2>2. /\ Has(Emit(prog), k, Label(End(n))) /\ k + 1 = StopAt(prog, n) /\ k + 1 \in Nat
    BY <1>1, <1>2, LoopIs
  <2>3. Beyond(H, k + 1) = H
    BY <1>1, <2>2, BeyondStays
  <2>4. On(p, tr, a, k + 1, H, last, t, i, m)
    <3>1. On(p, tr, a, k, H, last, t, i, m) /\ Has(Emit(p), k, Label(End(n))) /\ Beyond(H, k + 1) = H
      BY <2>1, <2>2, <2>3
    <3> HIDE DEF p, tr, H, m, k
    <3>2. On(p, tr, a, k + 1, Beyond(H, k + 1), last, t, i, m)
      BY <3>1, OnLabel
    <3> QED BY <3>1, <3>2
  <2>5. InStep(prog, q, r, iter, i)
    BY <1>1, <2>1, InStepOut
  <2>6. Stands(prog, trace', a, q, r, StopAt(prog, n), iter', last, t, i)
    BY <1>2, <2>1, <2>2, <2>4, <2>5 DEF Stands
  <2> QED BY <1>1, <1>2, <1>3, <2>6, SimAfter
<1>4. CASE flow # "break"
  <2>1. 1 \in Slots(prog.kind[n])
    BY <1>1, <1>2, LoopIs
  <2>2. /\ Sim(p, tr, a, At("end", n, 1), f, e, l, it) /\ IsTree(p) /\ n \in Stmts(p)
        /\ 1 \in Slots(p.kind[n]) /\ f \in {"error", "return", "break", "continue"}
        /\ f \notin {"break", "continue"} /\ p.kind[n] # "try"
    BY <1>1, <1>2, <1>4, <2>1 DEF Loops
  <2>3. Sim(p, tr, a, At("end", p.parent[n], p.slot[n]), f, e, l, it)
    <3> HIDE DEF p, tr, f, e, l, it
    <3> QED BY <2>2, SimOut
  <2> QED BY <1>2, <1>4, <2>3
<1> QED BY <1>3, <1>4

\* The error that leaves a try body arrives at its catch label.
LEMMA OffCaught ==
  ASSUME NEW p, IsTree(p), NEW n \in Stmts(p), p.kind[n] = "try", NEW tr, NEW a, NEW k,
         NEW last, NEW t, NEW i, NEW m, NEW e,
         Off(p, tr, a, k, HandlersIn(p, n, 1), last, t, i, m, e)
  PROVE  On(p, tr, a, CatchAt(p, n), HandlersIn(p, p.parent[n], p.slot[n]), e, t, i, m)
<1> DEFINE H == HandlersIn(p, p.parent[n], p.slot[n])
           G == HandlersIn(p, n, 1)
           x == CatchAt(p, n)
           s == State(k, G, last, t, i, "running", 0)
<1>1. /\ \A h \in H : x < h
      /\ x \in Nat /\ G = H \cup {x}
  BY CatchFirst
<1>2. \A h \in H : h \in Nat
  BY ParentIsBlock, HandlersAhead
<1>3. Reaches(Emit(p), tr, a, Threw(s, e, m))
  BY DEF Off
<1> HIDE DEF H, G, x
<1>4. Min(G) = x
  <2>1. G \subseteq Nat /\ G # {}
    BY <1>1, <1>2
  <2>2. Min(G) \in G /\ Min(G) <= x
    BY <1>1, <2>1, MinIsLeast
  <2>3. Min(G) \in H => x < Min(G) /\ Min(G) \in Nat
    BY <1>1, <1>2
  <2>4. Min(G) \notin H
    BY <1>1, <2>2, <2>3
  <2> QED BY <1>1, <2>2, <2>4
<1>5. {h \in G : x < h} = H
  BY <1>1, <1>2
<1>6. s.live = G /\ s.temps = t /\ s.iters = i
  BY StateIs
<1> HIDE DEF s
<1>7. Threw(s, e, m) = State(x, H, e, t, i, "running", m)
  <2>1. G # {}
    BY <1>1
  <2> QED BY <1>4, <1>5, <1>6, <2>1 DEF Threw
<1>8. On(p, tr, a, x, H, e, t, i, m)
  BY <1>3, <1>7 DEF On
<1> QED BY <1>8 DEF H, x

\* A catch block is entered, in either engine.
LEMMA SimCatchError ==
  ASSUME InterpTypeOK, NEW a, NEW n \in Stmts(prog), CatchError(n),
         Sim(prog, trace, a, ctl, flow, error, lhs, iter)
  PROVE  Sim(prog, trace', a, ctl', flow', error', lhs', iter')
<1> DEFINE p == prog
           q == prog.parent[n]
           r == prog.slot[n]
           H == HandlersIn(prog, q, r)
           m == Len(trace)
           tr == trace
           lo == trace'
           e == error
           x == CatchAt(prog, n)
           site == <<n, "catch", 0>>
           o == [Succeeded(0) EXCEPT !.error = error]
<1>1. IsTree(prog)
  BY DEF InterpTypeOK
<1>2. /\ ctl = At("end", n, 1) /\ prog.kind[n] = "try" /\ flow = "error"
      /\ Record(site, o) /\ iter' = iter /\ flow' = "none" /\ ctl' = Enter(n, 2)
  BY DEF CatchError, Proceed
<1>3. error # NoError
  BY <1>2 DEF InterpTypeOK, FlowOK
<1>4. o.error = error /\ o.value = 0
  BY DEF Succeeded
<1>5. /\ Len(lo) = m + 1 /\ AsksFor(lo, m, site)
      /\ lo[m + 1].error = e /\ lo[m + 1].value = 0
      /\ \A y \in DOMAIN tr : y \in DOMAIN lo /\ lo[y] = tr[y]
  <2> DEFINE out == o
  <2>1. Record(site, out) /\ out.error = error /\ out.value = 0
    BY <1>2, <1>4
  <2> HIDE DEF out
  <2> QED BY <2>1, RecordIs
<1>6. PICK last, t, i, k :
        /\ DOMAIN t = Temps /\ InStep(prog, n, 1, iter, i)
        /\ Off(prog, trace, a, k, HandlersIn(prog, n, 1), last, t, i, m, error)
  <2>1. Failing(prog, trace, a, n, 1, error, iter)
    BY <1>2, AtEnd
  <2> QED BY <2>1 DEF Failing
<1>7. On(p, tr, a, x, H, e, t, i, m)
  <2>1. On(prog, trace, a, x, H, error, t, i, m)
    BY <1>1, <1>2, <1>6, OffCaught
  <2> QED BY <2>1
<1>8. /\ Has(Emit(prog), x, Label(Catch(n))) /\ Has(Emit(prog), x + 1, StoreLastError(site))
      /\ InAt(prog, n, 2) = x + 1 + 1 /\ 2 \in Slots(prog.kind[n])
  BY <1>1, <1>2, TryIs
<1>9. Beyond(H, x + 1) = H /\ Beyond(H, x + 1 + 1) = H
  <2>1. x \in Nat /\ x + 1 + 1 <= StopAt(prog, n) /\ StopAt(prog, n) \in Nat
    BY <1>1, <1>2, CatchFirst, StatementSpan
  <2>2. x + 1 \in Nat /\ x + 1 + 1 \in Nat /\ x + 1 <= StopAt(prog, n)
    BY <2>1
  <2> QED BY <1>1, <2>1, <2>2, BeyondStays
<1>10. On(p, lo, a, x + 1 + 1, H, e, t, i, m + 1)
  <2>1. /\ \A y \in DOMAIN tr : y \in DOMAIN lo /\ lo[y] = tr[y]
        /\ On(p, tr, a, x, H, e, t, i, m) /\ Has(Emit(p), x, Label(Catch(n)))
        /\ Has(Emit(p), x + 1, StoreLastError(site)) /\ AsksFor(lo, m, site)
        /\ lo[m + 1].error = e /\ lo[m + 1].value = 0 /\ e # NoError
        /\ Beyond(H, x + 1) = H /\ Beyond(H, x + 1 + 1) = H
    BY <1>3, <1>5, <1>7, <1>8, <1>9
  <2> HIDE DEF p, tr, lo, H, m, e, x, site
  <2>2. On(p, lo, a, x, H, e, t, i, m)
    BY <2>1, OnLonger
  <2>3. On(p, lo, a, x + 1, Beyond(H, x + 1), e, t, i, m)
    BY <2>1, <2>2, OnLabel
  <2>4. On(p, lo, a, x + 1, H, e, t, i, m)
    BY <2>1, <2>3
  <2>5. On(p, lo, a, x + 1 + 1, Beyond(H, x + 1 + 1), e, t, i, m + 1)
    <3> DEFINE x1 == x + 1
    <3>1. On(p, lo, a, x1, H, e, t, i, m) /\ Has(Emit(p), x1, StoreLastError(site))
      BY <2>1, <2>4
    <3> HIDE DEF x1
    <3>2. On(p, lo, a, x1 + 1, Beyond(H, x1 + 1), e, t, i, m + 1)
      BY <2>1, <3>1, OnStoreLastError
    <3> QED BY <3>2 DEF x1
  <2> QED BY <2>1, <2>5
<1>11. HandlersIn(prog, n, 2) = H
  BY <1>1, <1>2, CatchFirst
<1>12. InStep(prog, n, 2, iter, i)
  <2>1. InStep(prog, q, r, iter, i)
    BY <1>1, <1>6, InStepOut
  <2> QED BY <1>1, <1>2, <2>1, InStepIn
<1>13. Stands(prog, trace', a, n, 2, InAt(prog, n, 2), iter', e, t, i)
  BY <1>2, <1>5, <1>6, <1>8, <1>10, <1>11, <1>12 DEF Stands
<1>14. IsBlock(prog, n, 2)
  BY <1>8 DEF IsBlock
<1> QED BY <1>1, <1>2, <1>13, <1>14, SimEnter

-----------------------------------------------------------------------------
(***************************************************************************)
(* How the run of the interpreter ends, and where the machine gets by then. *)
(***************************************************************************)

\* With all of tr, the machine gets to the result `out`, or as far as tr lets
\* it when the run was cut short.
Ending(p, tr, a, out) ==
  \E k, live, last, t, i, res :
    /\ Reaches(Emit(p), tr, a, State(k, live, last, t, i, res, Len(tr)))
    /\ out = "cut" \/ res = out

\* Nothing is above the block of the unit.
LEMMA TopSlot ==
  ASSUME NEW p
  PROVE  HandlersIn(p, 0, 1) = {} /\ LoopIn(p, 0, 1) = 0
  BY TopHandlers, TopLoop

\* An error that no handler takes is the result.
LEMMA OffTop ==
  ASSUME NEW p, NEW tr, NEW a, NEW k, NEW last, NEW t, NEW i, NEW m, NEW e, m = Len(tr),
         Off(p, tr, a, k, {}, last, t, i, m, e)
  PROVE  Ending(p, tr, a, e)
<1> DEFINE s == State(k, {}, last, t, i, "running", 0)
<1>1. Reaches(Emit(p), tr, a, Threw(s, e, m))
  BY DEF Off
<1>2. s.pc = k /\ s.live = {} /\ s.last = last /\ s.temps = t /\ s.iters = i
  BY StateIs
<1> HIDE DEF s
<1>3. Threw(s, e, m) = State(k, {}, last, t, i, e, m)
  BY <1>2 DEF Threw
<1> QED BY <1>1, <1>3 DEF Ending

\* The block of the unit ended with an error, in either engine.
LEMMA FailsAtTop ==
  ASSUME NEW a, ctl = At("end", 0, 1), flow = "error",
         Sim(prog, trace, a, ctl, flow, error, lhs, iter)
  PROVE  Ending(prog, trace, a, error)
<1>1. Failing(prog, trace, a, 0, 1, error, iter)
  BY AtEnd
<1>2. PICK last, t, i, k : Off(prog, trace, a, k, {}, last, t, i, Len(trace), error)
  BY <1>1, TopSlot DEF Failing
<1> QED BY <1>2, OffTop

\* Where the outputs of the unit are read, or its last line is behind it.
LEMMA AtReturn ==
  ASSUME IsTree(prog), NEW a, ctl = At("end", 0, 1), flow \in Flows, flow # "error",
         Sim(prog, trace, a, ctl, flow, error, lhs, iter)
  PROVE  /\ flow = "none" \/ (flow = "return" /\ prog.unit = "function")
         /\ \E k, last, t, i : /\ On(prog, trace, a, k, {}, last, t, i, Len(trace))
                               /\ Holds(Emit(prog), k, EmitReturnFromOutputs(prog))
<1>1. CASE flow = "none"
  <2>1. PICK last, t, i : Stands(prog, trace, a, 0, 1, OutAt(prog, 0, 1), iter, last, t, i)
    BY <1>1, AtEnd
  <2>2. On(prog, trace, a, OutAt(prog, 0, 1), {}, last, t, i, Len(trace))
    BY <2>1, TopSlot DEF Stands
  <2>3. Holds(Emit(prog), OutAt(prog, 0, 1), EmitReturnFromOutputs(prog))
    BY RootIs
  <2> QED BY <1>1, <2>2, <2>3
<1>2. CASE flow = "return"
  <2>1. Returning(prog, trace, a, 0, 1, iter)
    BY <1>2, AtEnd
  <2> QED BY <1>2, <2>1 DEF Returning
<1>3. flow \notin {"break", "continue"}
  <2> SUFFICES ASSUME flow \in {"break", "continue"} PROVE FALSE
    OBVIOUS
  <2>1. Leaving(prog, trace, a, 0, 1, flow, iter)
    BY AtEnd
  <2> QED BY <2>1, TopSlot DEF Leaving
<1> QED BY <1>1, <1>2, <1>3 DEF Flows, Controls

\* A machine that returns has its result.
LEMMA ScriptReturns ==
  ASSUME NEW p, NEW tr, NEW a, NEW k, NEW live, NEW last, NEW t, NEW i, NEW m, m = Len(tr),
         On(p, tr, a, k, live, last, t, i, m), Has(Emit(p), k, Return)
  PROVE  Ending(p, tr, a, "returned")
<1>1. Reaches(Emit(p), tr, a, State(k, live, last, t, i, "returned", m))
  BY OnReturn
<1> QED BY <1>1 DEF Ending

\* A script ends, in either engine.
LEMMA EndsScript ==
  ASSUME InterpTypeOK, NEW a, ScriptEnds, Sim(prog, trace, a, ctl, flow, error, lhs, iter)
  PROVE  Ending(prog, trace', a, outcome') /\ outcome' # "running"
<1>1. /\ ctl = At("end", 0, 1) /\ prog.unit = "script" /\ trace' = trace
      /\ flow = "none" => outcome' = "returned"
      /\ flow = "error" => outcome' = error
  BY DEF ScriptEnds, Silent
<1>2. IsTree(prog) /\ flow \in Flows /\ error \in Errors \cup HostErrors \cup {NoError}
      /\ (flow = "error" => error # NoError)
  BY DEF InterpTypeOK, FlowOK
<1>3. CASE flow = "error"
  <2>1. Ending(prog, trace, a, error)
    BY <1>1, <1>3, FailsAtTop
  <2>2. error # "running"
    BY <1>2, <1>3, CodesAssumption DEF AllErrors
  <2> QED BY <1>1, <1>3, <2>1, <2>2
<1>4. CASE flow # "error"
  <2>1. flow = "none"
    BY <1>1, <1>2, <1>4, AtReturn
  <2>2. PICK k, last, t, i : /\ On(prog, trace, a, k, {}, last, t, i, Len(trace))
                             /\ Holds(Emit(prog), k, EmitReturnFromOutputs(prog))
    BY <1>1, <1>2, <1>4, AtReturn
  <2>3. EmitReturnFromOutputs(prog) = << Return >>
    BY <1>1 DEF EmitReturnFromOutputs
  <2>4. Has(Emit(prog), k, Return)
    BY <2>2, <2>3, HoldsOne
  <2>5. Ending(prog, trace, a, "returned")
    BY <2>2, <2>4, ScriptReturns
  <2> QED BY <1>1, <2>1, <2>5
<1> QED BY <1>3, <1>4

\* A function fails, in either engine.
LEMMA EndsFunction ==
  ASSUME InterpTypeOK, NEW a, FunctionFails, Sim(prog, trace, a, ctl, flow, error, lhs, iter)
  PROVE  Ending(prog, trace', a, outcome') /\ outcome' # "running"
<1>1. ctl = At("end", 0, 1) /\ flow = "error" /\ trace' = trace /\ outcome' = error
  BY DEF FunctionFails, Silent
<1>2. error \in Errors \cup HostErrors /\ Ending(prog, trace, a, error)
  BY <1>1, FailsAtTop DEF InterpTypeOK, FlowOK
<1>3. error # "running"
  BY <1>2, CodesAssumption DEF AllErrors
<1> QED BY <1>1, <1>2, <1>3

\* A function reads its outputs, in either engine.
LEMMA EndsOutputs ==
  ASSUME InterpTypeOK, NEW a, NEW e \in Errors \cup {NoError},
         ReadOutputs([Succeeded(0) EXCEPT !.error = e]),
         Sim(prog, trace, a, ctl, flow, error, lhs, iter)
  PROVE  Ending(prog, trace', a, outcome') /\ outcome' # "running"
<1> DEFINE p == prog
           tr == trace
           lo == trace'
           m == Len(trace)
           site == <<0, "outputs", 0>>
           o == [Succeeded(0) EXCEPT !.error = e]
<1>0. o.error = e
  BY DEF Succeeded
<1>1. /\ ctl = At("end", 0, 1) /\ prog.unit = "function" /\ flow # "error" /\ Record(site, o)
      /\ outcome' = IF e = NoError THEN "returned" ELSE e
  BY <1>0 DEF ReadOutputs
<1> HIDE DEF o
<1>2. IsTree(prog) /\ flow \in Flows
  BY DEF InterpTypeOK, FlowOK
<1>3. PICK k, last, t, i : /\ On(prog, trace, a, k, {}, last, t, i, m)
                           /\ Holds(Emit(prog), k, EmitReturnFromOutputs(prog))
  BY <1>1, <1>2, AtReturn
<1>4. Has(Emit(prog), k, Eval(site)) /\ Has(Emit(prog), k + 1, Return)
  <2> DEFINE u == Eval(site)
             v == Return
  <2>0. << u >> \o << v >> = << u, v >>
    <3>1. site \in SiteNames
      BY DEF SiteNames
    <3>2. u \in Instrs /\ v \in Instrs
      BY <3>1, InstrTypes DEF Eval, Return, Instr
    <3> HIDE DEF u, v
    <3> QED BY <3>2, TwoAreAPair
  <2>1. EmitReturnFromOutputs(prog) = << Eval(site), Return >>
    BY <1>1, <2>0 DEF EmitReturnFromOutputs
  <2> QED BY <1>3, <2>1, HoldsTwo
<1>5. /\ Len(lo) = m + 1 /\ AsksFor(lo, m, site) /\ lo[m + 1].error = e
      /\ \A y \in DOMAIN tr : y \in DOMAIN lo /\ lo[y] = tr[y]
  BY <1>0, <1>1, RecordIs
<1>6. Beyond({}, k + 1) = {}
  BY DEF Beyond
<1>7. /\ e = NoError => Ending(p, lo, a, "returned")
      /\ e # NoError => Ending(p, lo, a, e)
  <2>1. /\ \A y \in DOMAIN tr : y \in DOMAIN lo /\ lo[y] = tr[y]
        /\ On(p, tr, a, k, {}, last, t, i, m) /\ Has(Emit(p), k, Eval(site))
        /\ Has(Emit(p), k + 1, Return) /\ AsksFor(lo, m, site) /\ Len(lo) = m + 1
    BY <1>3, <1>4, <1>5
  <2> HIDE DEF p, tr, lo, m, site
  <2>2. On(p, lo, a, k, {}, last, t, i, m)
    BY <2>1, OnLonger
  <2>3. /\ lo[m + 1].error = NoError => On(p, lo, a, k + 1, Beyond({}, k + 1), last, t, i, m + 1)
        /\ lo[m + 1].error # NoError => Off(p, lo, a, k, {}, last, t, i, m + 1, lo[m + 1].error)
    BY <2>1, <2>2, OnEval
  <2>4. /\ e = NoError => On(p, lo, a, k + 1, {}, last, t, i, m + 1)
        /\ e # NoError => Off(p, lo, a, k, {}, last, t, i, m + 1, e)
    BY <1>5, <1>6, <2>3 DEF lo, m
  <2> DEFINE k1 == k + 1
             m1 == m + 1
  <2>5. m1 = Len(lo) /\ Has(Emit(p), k1, Return)
        /\ (e = NoError => On(p, lo, a, k1, {}, last, t, i, m1))
        /\ (e # NoError => Off(p, lo, a, k, {}, last, t, i, m1, e))
    BY <2>1, <2>4
  <2> HIDE DEF k1, m1
  <2>6. e = NoError => Ending(p, lo, a, "returned")
    BY <2>5, ScriptReturns
  <2>7. e # NoError => Ending(p, lo, a, e)
    BY <2>5, OffTop
  <2> QED BY <2>6, <2>7
<1>8. e # NoError => e # "running"
  BY CodesAssumption DEF AllErrors
<1> QED BY <1>1, <1>7, <1>8

\* A run is cut short.
LEMMA EndsCut ==
  ASSUME NEW a, Cut, Sim(prog, trace, a, ctl, flow, error, lhs, iter), flow \in Flows
  PROVE  Ending(prog, trace', a, outcome') /\ outcome' # "running"
<1>1. outcome' = "cut" /\ trace' = trace
  BY DEF Cut
<1>2. \E k, live, last, t, i : On(prog, trace, a, k, live, last, t, i, Len(trace))
                            \/ \E e : Off(prog, trace, a, k, live, last, t, i, Len(trace), e)
  <2>1. CASE flow = "none"
    <3>1. Calm(prog, trace, a, ctl, lhs, iter)
      BY <2>1 DEF Sim
    <3> DEFINE n == BlockAt(prog, ctl)[1]
               s == BlockAt(prog, ctl)[2]
               k == PlaceAt(prog, ctl)
    <3>2. \E last, t, i : Stands(prog, trace, a, n, s, k, iter, last, t, i)
      BY <3>1 DEF Calm
    <3> HIDE DEF n, s, k
    <3> QED BY <3>2 DEF Stands
  <2>2. CASE flow = "error"
    BY <2>2 DEF Sim, Failing
  <2>3. CASE flow \in {"break", "continue"}
    <3> DEFINE loop == LoopIn(prog, ctl.node, ctl.arm)
               k == IF flow = "break" THEN EndAt(prog, loop) ELSE HeadAt(prog, loop)
               live == HandlersIn(prog, prog.parent[loop], prog.slot[loop])
    <3>1. Leaving(prog, trace, a, ctl.node, ctl.arm, flow, iter)
      BY <2>3 DEF Sim
    <3>2. \E last, t, i : On(prog, trace, a, k, live, last, t, i, Len(trace))
      BY <3>1 DEF Leaving
    <3> HIDE DEF k, live
    <3> QED BY <3>2
  <2>4. CASE flow = "return"
    <3>1. \E last, t, i, k : On(prog, trace, a, k, {}, last, t, i, Len(trace))
      BY <2>4 DEF Sim, Returning
    <3> QED BY <3>1
  <2> QED BY <2>1, <2>2, <2>3, <2>4 DEF Flows, Controls
<1>3. PICK k, live, last, t, i : On(prog, trace, a, k, live, last, t, i, Len(trace))
                              \/ \E e : Off(prog, trace, a, k, live, last, t, i, Len(trace), e)
  BY <1>2
<1>4. CASE On(prog, trace, a, k, live, last, t, i, Len(trace))
  BY <1>1, <1>4 DEF On, Ending
<1>5. CASE \E e : Off(prog, trace, a, k, live, last, t, i, Len(trace), e)
  <2>1. PICK e : Off(prog, trace, a, k, live, last, t, i, Len(trace), e)
    BY <1>5
  <2> DEFINE s == State(k, live, last, t, i, "running", 0)
             m == Len(trace)
  <2>2. Reaches(Emit(prog), trace, a, Threw(s, e, m))
    BY <2>1 DEF Off
  <2> HIDE DEF s, m
  <2>3. \E k2, live2, last2, t2, i2, res : Threw(s, e, m) = State(k2, live2, last2, t2, i2, res, m)
    BY DEF Threw
  <2>4. \E k2, live2, last2, t2, i2, res : Reaches(Emit(prog), trace, a, State(k2, live2, last2, t2, i2, res, m))
    BY <2>2, <2>3
  <2> QED BY <1>1, <2>4 DEF Ending, m
<1> QED BY <1>3, <1>4, <1>5

\* Steps of the interpreter leave the program, and those that are not the last
\* leave it running.
LEMMA SimStatement ==
  ASSUME HostErrors = {}, InterpTypeOK, PartingFeatures(prog) = {}, NEW a, NEW n \in Stmts(prog),
         \/ \E o \in Values({0}) : DoAct(n, o) \/ DoSwitch(n, o)
         \/ \E o \in Values(0 .. MaxLen) : DoFor(n, o)
         \/ \E o \in Values({0, 1}), i \in 1 .. Arms : EvaluateTest(n, i, o) \/ EvaluateRhs(n, i, o)
         \/ DoCondition(n)
         \/ DoTry(n)
         \/ DoControl(n)
         \/ BindNext(n)
         \/ ForEnds(n)
         \/ CatchError(n)
         \/ \E s \in Slots(prog.kind[n]) : HandOn(n, s)
         \/ LoopTurns(n)
         \/ LoopLeft(n),
         Sim(prog, trace, a, ctl, flow, error, lhs, iter)
  PROVE  Sim(prog, trace', a, ctl', flow', error', lhs', iter') /\ prog' = prog /\ outcome' = outcome
<1> DEFINE Goal == Sim(prog, trace', a, ctl', flow', error', lhs', iter') /\ prog' = prog
                   /\ outcome' = outcome
<1>1. ASSUME NEW o \in Values({0}), DoAct(n, o) PROVE Goal
  BY <1>1, SimDoAct DEF DoAct
<1>2. ASSUME NEW o \in Values({0}), DoSwitch(n, o) PROVE Goal
  BY <1>2, SimDoSwitch DEF DoSwitch
<1>3. ASSUME NEW o \in Values(0 .. MaxLen), DoFor(n, o) PROVE Goal
  BY <1>3, SimDoFor DEF DoFor
<1>4. ASSUME NEW o \in Values({0, 1}), NEW i \in 1 .. Arms, EvaluateTest(n, i, o) PROVE Goal
  BY <1>4, SimEvaluateTest DEF EvaluateTest
<1>5. ASSUME NEW o \in Values({0, 1}), NEW i \in 1 .. Arms, EvaluateRhs(n, i, o) PROVE Goal
  BY <1>5, SimEvaluateRhs DEF EvaluateRhs
<1>6. CASE DoCondition(n)
  BY <1>6, SimDoCondition DEF DoCondition
<1>7. CASE DoTry(n)
  BY <1>7, SimDoTry DEF DoTry
<1>8. CASE DoControl(n)
  BY <1>8, SimDoControl DEF DoControl
<1>9. CASE BindNext(n)
  BY <1>9, SimBindNext DEF BindNext
<1>10. CASE ForEnds(n)
  BY <1>10, SimForEnds DEF ForEnds
<1>11. CASE CatchError(n)
  BY <1>11, SimCatchError DEF CatchError
<1>12. ASSUME NEW s \in Slots(prog.kind[n]), HandOn(n, s) PROVE Goal
  BY <1>12, SimHandOn DEF HandOn
<1>13. CASE LoopTurns(n)
  BY <1>13, SimLoopTurns DEF LoopTurns
<1>14. CASE LoopLeft(n)
  BY <1>14, SimLoopLeft DEF LoopLeft
<1> HIDE DEF Goal
<1>15. Goal
  BY <1>1, <1>2, <1>3, <1>4, <1>5, <1>6, <1>7, <1>8, <1>9, <1>10, <1>11, <1>12, <1>13, <1>14, Zenon
     DEF Goal
<1> QED BY <1>15 DEF Goal

\* A step of the interpreter, in either engine.
LEMMA SimInterpNext ==
  ASSUME HostErrors = {}, InterpTypeOK, PartingFeatures(prog) = {}, NEW a, InterpNext,
         outcome = "running", Sim(prog, trace, a, ctl, flow, error, lhs, iter)
  PROVE  /\ prog' = prog
         /\ \/ outcome' = "running" /\ Sim(prog, trace', a, ctl', flow', error', lhs', iter')
            \/ outcome' # "running" /\ Ending(prog, trace', a, outcome')
<1> DEFINE Goal == /\ prog' = prog
                   /\ \/ outcome' = "running" /\ Sim(prog, trace', a, ctl', flow', error', lhs', iter')
                      \/ outcome' # "running" /\ Ending(prog, trace', a, outcome')
<1>1. CASE \E n \in Stmts(prog) :
             \/ \E o \in Values({0}) : DoAct(n, o) \/ DoSwitch(n, o)
             \/ \E o \in Values(0 .. MaxLen) : DoFor(n, o)
             \/ \E o \in Values({0, 1}), i \in 1 .. Arms : EvaluateTest(n, i, o) \/ EvaluateRhs(n, i, o)
             \/ DoCondition(n)
             \/ DoTry(n)
             \/ DoControl(n)
             \/ BindNext(n)
             \/ ForEnds(n)
             \/ CatchError(n)
             \/ \E s \in Slots(prog.kind[n]) : HandOn(n, s)
             \/ LoopTurns(n)
             \/ LoopLeft(n)
  <2>1. Sim(prog, trace', a, ctl', flow', error', lhs', iter') /\ prog' = prog /\ outcome' = outcome
    BY <1>1, SimStatement, Zenon
  <2> QED BY <2>1
<1>2. CASE ScriptEnds
  <2>1. Ending(prog, trace', a, outcome') /\ outcome' # "running"
    BY <1>2, EndsScript
  <2> QED BY <1>2, <2>1 DEF ScriptEnds
<1>3. CASE FunctionFails
  <2>1. Ending(prog, trace', a, outcome') /\ outcome' # "running"
    BY <1>3, EndsFunction
  <2> QED BY <1>3, <2>1 DEF FunctionFails
<1>4. ASSUME NEW e \in Errors \cup {NoError}, ReadOutputs([Succeeded(0) EXCEPT !.error = e])
      PROVE  Goal
  <2>1. Ending(prog, trace', a, outcome') /\ outcome' # "running"
    BY <1>4, EndsOutputs
  <2> QED BY <1>4, <2>1 DEF ReadOutputs
<1>5. CASE Cut
  <2>1. Ending(prog, trace', a, outcome') /\ outcome' # "running"
    BY <1>5, EndsCut DEF InterpTypeOK, FlowOK
  <2> QED BY <1>5, <2>1 DEF Cut
<1> HIDE DEF Goal
<1>6. Goal
  BY <1>1, <1>2, <1>3, <1>4, <1>5, Zenon DEF Goal, InterpNext
<1> QED BY <1>6 DEF Goal

\* The interpreter that is done does nothing more.
LEMMA InterpDone ==
  ASSUME InterpNext
  PROVE  outcome = "running"
<1>1. \A site, o : Record(site, o) => outcome = "running"
  BY DEF Record
<1>2. Silent => outcome = "running"
  BY DEF Silent
<1>3. \A n, o : DoAct(n, o) \/ DoSwitch(n, o) \/ DoFor(n, o) => outcome = "running"
  BY <1>1 DEF DoAct, DoSwitch, DoFor
<1>4. \A n, i, o : EvaluateTest(n, i, o) \/ EvaluateRhs(n, i, o) => outcome = "running"
  BY <1>1 DEF EvaluateTest, EvaluateRhs
<1>5. \A n : DoCondition(n) \/ DoTry(n) \/ DoControl(n) \/ ForEnds(n) \/ LoopTurns(n) \/ LoopLeft(n)
              => outcome = "running"
  BY <1>2 DEF DoCondition, DoTry, DoControl, ForEnds, LoopTurns, LoopLeft
<1>6. \A n : BindNext(n) \/ CatchError(n) => outcome = "running"
  BY <1>1 DEF BindNext, CatchError
<1>7. \A n, s : HandOn(n, s) => outcome = "running"
  BY <1>2 DEF HandOn
<1>8. ScriptEnds \/ FunctionFails \/ Cut => outcome = "running"
  BY <1>2 DEF ScriptEnds, FunctionFails, Cut
<1>9. \A o : ReadOutputs(o) => outcome = "running"
  BY <1>1 DEF ReadOutputs
<1> QED BY <1>3, <1>4, <1>5, <1>6, <1>7, <1>8, <1>9, Zenon DEF InterpNext

-----------------------------------------------------------------------------
(***************************************************************************)
(* The inductive invariant of the two engines.  As long as the interpreter *)
(* runs, the machine has not been started, and would get, with the trace   *)
(* so far, to where the interpreter is; once it is done the machine is on  *)
(* its way to the same result, or the trace that was cut short is used up. *)
(***************************************************************************)
Follows ==
  IF outcome = "running"
  THEN Machine /\ Sim(prog, trace, Actual, ctl, flow, error, lhs, iter)
  ELSE \/ outcome = "cut" /\ pos = Len(trace)
       \/ Machine /\ Ending(prog, trace, Actual, outcome)

\* A step of the interpreter keeps the program.
LEMMA InterpKeepsProgram ==
  ASSUME InterpNext
  PROVE  prog' = prog
<1>1. \A n, o : DoAct(n, o) \/ DoSwitch(n, o) \/ DoFor(n, o) => prog' = prog
  BY DEF DoAct, DoSwitch, DoFor
<1>2. \A n, i, o : EvaluateTest(n, i, o) \/ EvaluateRhs(n, i, o) => prog' = prog
  BY DEF EvaluateTest, EvaluateRhs
<1>3. \A n : DoCondition(n) \/ DoTry(n) \/ DoControl(n) \/ ForEnds(n) \/ LoopTurns(n) \/ LoopLeft(n)
              => prog' = prog
  BY DEF DoCondition, DoTry, DoControl, ForEnds, LoopTurns, LoopLeft
<1>4. \A n : BindNext(n) \/ CatchError(n) => prog' = prog
  BY DEF BindNext, CatchError
<1>5. \A n, s : HandOn(n, s) => prog' = prog
  BY DEF HandOn
<1>6. ScriptEnds \/ FunctionFails \/ Cut => prog' = prog
  BY DEF ScriptEnds, FunctionFails, Cut
<1>7. \A o : ReadOutputs(o) => prog' = prog
  BY DEF ReadOutputs
<1> QED BY <1>1, <1>2, <1>3, <1>4, <1>5, <1>6, <1>7, Zenon DEF InterpNext

\* The invariant holds at first.
LEMMA FollowsAtFirst ==
  ASSUME Init
  PROVE  Follows
<1>1. /\ prog \in Programs /\ ctl = Enter(0, 1) /\ flow = "none" /\ outcome = "running"
      /\ trace = << >>
  BY DEF Init, InterpInit
<1>2. /\ code = Emit(prog) /\ pc = 1 /\ tryStack = << >> /\ lastError = NoError
      /\ temps = [x \in Temps |-> 0] /\ DOMAIN iters = {} /\ pending = NoError
      /\ result = "running" /\ pos = 0
  BY DEF Init, Load
<1>3. IsTree(prog)
  BY <1>1, ProgramsAssumption
<1>4. Elements(tryStack) = {} /\ Descending(tryStack) /\ tryStack \in Seq(1 .. Len(code))
  BY <1>2 DEF Elements, Descending
<1>5. Machine
  <2>1. Emit(prog) \in Codes
    BY <1>1, EmittedAssumption
  <2> QED BY <1>2, <1>4, <2>1 DEF Machine
<1>6. Actual = State(1, {}, NoError, temps, iters, "running", 0)
  BY <1>2, <1>4 DEF Actual
<1>7. On(prog, trace, Actual, 1, {}, NoError, temps, iters, 0)
  <2> DEFINE a == Actual
  <2>1. a = State(1, {}, NoError, temps, iters, "running", 0)
    BY <1>6
  <2> HIDE DEF a
  <2>2. Reaches(Emit(prog), trace, a, a)
    BY ReachesItself
  <2> QED BY <2>1, <2>2 DEF On, a
<1>8. IsBlock(prog, 0, 1) /\ InAt(prog, 0, 1) = 1 /\ HandlersIn(prog, 0, 1) = {}
  BY <1>3, RootIs, TopSlot DEF IsBlock
<1>9. InStep(prog, 0, 1, iter, iters)
  <2>1. ForsIn(prog, 0, 1) = {}
    BY TopBodies
  <2> QED BY <1>2, <2>1 DEF InStep
<1>10. Len(trace) = 0 /\ DOMAIN temps = Temps
  BY <1>1, <1>2
<1>11. Stands(prog, trace, Actual, 0, 1, InAt(prog, 0, 1), iter, NoError, temps, iters)
  BY <1>7, <1>8, <1>9, <1>10 DEF Stands
<1>12. Sim(prog, trace, Actual, Enter(0, 1), "none", error, lhs, iter)
  <2> DEFINE a == Actual
             t == temps
             i == iters
             it == iter
             tr == trace
             e == error
             l == lhs
  <2>1. Stands(prog, tr, a, 0, 1, InAt(prog, 0, 1), it, NoError, t, i)
    BY <1>11
  <2> HIDE DEF a, t, i, it, tr, e, l
  <2>2. Sim(prog, tr, a, Enter(0, 1), "none", e, l, it)
    BY <1>3, <1>8, <2>1, SimEnter
  <2> QED BY <2>2 DEF a, it, tr, e, l
<1> QED BY <1>1, <1>5, <1>12 DEF Follows

\* Each step of the interpreter keeps it.
LEMMA FollowsInterpreting ==
  ASSUME HostErrors = {}, InterpTypeOK, PartingFeatures(prog) = {}, Follows, Interpret
  PROVE  Follows'
<1>1. InterpNext /\ outcome = "running"
  BY InterpDone DEF Interpret
<1>2. Machine /\ Sim(prog, trace, Actual, ctl, flow, error, lhs, iter)
  BY <1>1 DEF Follows
<1>3. /\ prog' = prog
      /\ \/ outcome' = "running" /\ Sim(prog, trace', Actual, ctl', flow', error', lhs', iter')
         \/ outcome' # "running" /\ Ending(prog, trace', Actual, outcome')
  <2> DEFINE a == Actual
  <2>1. Sim(prog, trace, a, ctl, flow, error, lhs, iter)
    BY <1>2
  <2> HIDE DEF a
  <2>2. /\ prog' = prog
        /\ \/ outcome' = "running" /\ Sim(prog, trace', a, ctl', flow', error', lhs', iter')
           \/ outcome' # "running" /\ Ending(prog, trace', a, outcome')
    BY <1>1, <2>1, SimInterpNext
  <2> QED BY <2>2 DEF a
<1>4. Machine' /\ Actual' = Actual
  BY <1>2, <1>3 DEF Interpret, machineVars, vmVars, Machine, Actual
<1> QED BY <1>3, <1>4 DEF Follows

\* A machine that has its result takes no step.
LEMMA MachineRuns ==
  ASSUME ReplayEvaluation \/ ReplayBinding \/ ReplaySilent
  PROVE  result = "running"
<1>1. ReplayEvaluation => result = "running"
  BY DEF ReplayEvaluation, Fetches
<1>2. ReplayBinding => result = "running"
  BY DEF ReplayBinding, ExecStoreBinding, ExecStoreLastError, Fetches
<1>3. ReplaySilent => result = "running"
  BY DEF ReplaySilent, ExecBinaryLogical, ExecLabel, ExecJump, ExecJumpIfFalse, ExecPushTry,
         ExecIterHasNext, ExecIterNext, ExecReturn, Fetches
<1> QED BY <1>1, <1>2, <1>3

\* Behind the end of the trace the machine goes through no event.
LEMMA MachineWaits ==
  ASSUME TypeOK, pos = Len(trace), ReplayEvaluation \/ ReplayBinding \/ ReplaySilent
  PROVE  pos' = pos
<1>1. \A o : ~ Replay(o)
  BY DEF Replay, TypeOK, InterpTypeOK
<1>2. ~ ReplayEvaluation /\ ~ ReplayBinding
  BY <1>1 DEF ReplayEvaluation, ReplayBinding
<1> QED BY <1>2 DEF ReplaySilent

\* Each step of the machine keeps it.
LEMMA FollowsReplaying ==
  ASSUME HostErrors = {}, TypeOK, Follows, outcome # "running",
         ReplayEvaluation \/ ReplayBinding \/ ReplaySilent, UNCHANGED interpVars
  PROVE  Follows'
<1>1. prog' = prog /\ trace' = trace /\ outcome' = outcome
  BY DEF interpVars
<1>2. CASE outcome = "cut" /\ pos = Len(trace)
  BY <1>1, <1>2, MachineWaits DEF Follows
<1>3. CASE Machine /\ Ending(prog, trace, Actual, outcome)
  <2>1. PICK k, live, last, t, i, res :
          /\ Reaches(Emit(prog), trace, Actual, State(k, live, last, t, i, res, Len(trace)))
          /\ outcome = "cut" \/ res = outcome
    BY <1>3 DEF Ending
  <2> DEFINE a == Actual
             m == State(k, live, last, t, i, res, Len(trace))
             c == Emit(prog)
  <2>2. code = c
    BY <1>3 DEF Machine
  <2>3. CASE a = m
    <3>1. a.result = result /\ a.pos = pos
      BY ActualIs
    <3>2. m.result = res /\ m.pos = Len(trace)
      BY StateIs
    <3> HIDE DEF a, m
    <3>3. result = res /\ pos = Len(trace)
      BY <2>3, <3>1, <3>2
    <3>4. outcome = "cut"
      BY <2>1, <3>3, MachineRuns
    <3> QED BY <1>1, <3>3, <3>4, MachineWaits DEF Follows
  <2>4. CASE a # m
    <3>1. CanTurn(c, trace, a) /\ Reaches(c, trace, Turn(c, trace, a), m)
      <4>1. Reaches(c, trace, a, m)
        BY <2>1
      <4> HIDE DEF c, a, m
      <4> QED BY <2>4, <4>1, ReachesBy
    <3>2. Machine' /\ Actual' = Turn(c, trace, a)
      BY <1>1, <1>3, <2>2, <3>1, MachineTurns
    <3> DEFINE b == Actual'
    <3>3. Reaches(c, trace, b, m)
      BY <3>1, <3>2
    <3>4. Ending(prog, trace, b, outcome)
      <4> HIDE DEF b
      <4> QED BY <2>1, <3>3 DEF Ending
    <3> QED BY <1>1, <3>2, <3>4 DEF Follows
  <2> QED BY <2>3, <2>4
<1> QED BY <1>2, <1>3 DEF Follows

\* It says that the engines agree.
LEMMA FollowsMeansAgree ==
  ASSUME TypeOK, Follows
  PROVE  EnginesAgree
<1> SUFFICES ASSUME Interpreted PROVE EnginesAgree
  BY DEF EnginesAgree
<1>1. outcome # "running" /\ Len(trace) \in Nat /\ DOMAIN trace = 1 .. Len(trace) /\ pos \in Nat
  BY DEF Interpreted, TypeOK, InterpTypeOK
<1>2. CASE outcome = "cut" /\ pos = Len(trace)
  BY <1>1, <1>2 DEF EnginesAgree
<1>3. CASE Machine /\ Ending(prog, trace, Actual, outcome)
  <2>1. PICK k, live, last, t, i, res :
          /\ Reaches(Emit(prog), trace, Actual, State(k, live, last, t, i, res, Len(trace)))
          /\ outcome = "cut" \/ res = outcome
    BY <1>3 DEF Ending
  <2> DEFINE a == Actual
             m == State(k, live, last, t, i, res, Len(trace))
             c == Emit(prog)
             e == trace[pos + 1]
             x == code[pc]
  <2>2. code = c
    BY <1>3 DEF Machine
  <2>3. /\ a.result = result /\ a.pos = pos /\ a.pc = pc /\ a.last = lastError /\ a.temps = temps
    BY ActualIs
  <2>4. CASE a = m
    <3>1. m.result = res /\ m.pos = Len(trace)
      BY StateIs
    <3> HIDE DEF a, m
    <3>2. result = res /\ pos = Len(trace)
      BY <2>3, <2>4, <3>1
    <3>3. Asks => result = "running"
      BY DEF Asks, Fetches
    <3>4. Asks => outcome = "cut"
      BY <1>1, <2>1, <3>2, <3>3
    <3>5. ~ (pos < Len(trace)) /\ outcome \in {result, "cut"}
      BY <1>1, <2>1, <3>2
    <3> QED BY <3>2, <3>4, <3>5 DEF EnginesAgree
  <2>5. CASE a # m
    <3>1. CanTurn(c, trace, a)
      <4>1. Reaches(c, trace, a, m)
        BY <2>1
      <4> HIDE DEF c, a, m
      <4> QED BY <2>5, <4>1, ReachesBy
    <3>2. result = "running" /\ (pc \in DOMAIN code => CanTurnOf(code, trace, x, a))
      <4> HIDE DEF a, c
      <4> QED BY <2>2, <2>3, <3>1 DEF CanTurn
    <3>3. Asks => /\ pos + 1 \in DOMAIN trace /\ e.site = x.site
                  /\ x.op = "StoreBinding" => e.error = NoError /\ e.value = temps["elem"]
                  /\ x.op = "StoreLastError" => e.error = lastError /\ e.value = 0
      <4>1. Asks => pc \in DOMAIN code /\ x.op \in AskOps
        BY DEF Asks, Fetches, AskOps
      <4> HIDE DEF a, e, x
      <4> QED BY <2>3, <3>2, <4>1 DEF CanTurnOf, e
    <3>4. Asks => e.error = Binds.error /\ e.value = Binds.value
      <4>1. CASE x.op = "StoreBinding"
        BY <3>3, <4>1 DEF Binds, Succeeded
      <4>2. CASE x.op = "StoreLastError"
        BY <3>3, <4>2 DEF Binds, Succeeded
      <4>3. CASE x.op \notin {"StoreBinding", "StoreLastError"}
        <5>1. Binds = [Succeeded(e.value) EXCEPT !.error = e.error]
          BY <4>3 DEF Binds
        <5> HIDE DEF e
        <5> QED BY <5>1 DEF Succeeded
      <4> QED BY <4>1, <4>2, <4>3
    <3>5. Asks => pos # Len(trace)
      <4>1. Asks => pos + 1 \in 1 .. Len(trace)
        BY <1>1, <3>3
      <4> DEFINE n == Len(trace)
                 y == pos
      <4>2. y \in Nat /\ n \in Nat
        BY <1>1
      <4> HIDE DEF n, y
      <4>3. y + 1 \in 1 .. n => y # n
        BY <4>2
      <4> QED BY <4>1, <4>3 DEF n, y
    <3> QED BY <3>2, <3>3, <3>4, <3>5 DEF EnginesAgree
  <2> QED BY <2>4, <2>5
<1> QED BY <1>1, <1>2, <1>3 DEF Follows

\* A program on whose features the engines do not part runs alike on both,
\* whatever its shape and whatever its evaluations answer: the machine asks for
\* the same evaluations in the same order, binds the same elements and errors,
\* and ends with the same result.  No figure callback may fail: the interpreter
\* catches the error of one in a try, the machine does not.
THEOREM EnginesAgreeOnCleanPrograms ==
  HostErrors = {} => (Spec => [](PartingFeatures(prog) = {} => EnginesAgree))
<1> SUFFICES ASSUME HostErrors = {}
             PROVE  Spec => [](PartingFeatures(prog) = {} => EnginesAgree)
  OBVIOUS
<1>1. Init => prog \in Programs /\ (PartingFeatures(prog) = {} => Follows)
  BY FollowsAtFirst DEF Init, InterpInit
<1>2. ASSUME TypeOK, prog \in Programs, PartingFeatures(prog) = {} => Follows, [Next]_vars
      PROVE  (prog \in Programs /\ (PartingFeatures(prog) = {} => Follows))'
  <2>1. prog' = prog
    <3>1. InterpNext => prog' = prog
      BY InterpKeepsProgram
    <3> QED BY <1>2, <3>1 DEF Next, Interpret, Finished, vars, interpVars
  <2> SUFFICES ASSUME PartingFeatures(prog) = {} PROVE Follows'
    BY <1>2, <2>1
  <2>2. Follows
    BY <1>2
  <2>3. CASE Interpret
    BY <1>2, <2>2, <2>3, FollowsInterpreting DEF TypeOK
  <2>4. CASE (ReplayEvaluation \/ ReplayBinding \/ ReplaySilent) /\ UNCHANGED interpVars
    <3>1. outcome # "running"
      BY <2>4 DEF ReplayEvaluation, ReplayBinding, ReplaySilent, Interpreted
    <3> QED BY <1>2, <2>2, <2>4, <3>1, FollowsReplaying
  <2>5. CASE UNCHANGED vars
    <3>1. /\ prog' = prog /\ trace' = trace /\ outcome' = outcome /\ ctl' = ctl /\ flow' = flow
          /\ error' = error /\ lhs' = lhs /\ iter' = iter /\ pos' = pos
      BY <2>5 DEF vars, interpVars, machineVars
    <3>2. Actual' = Actual /\ (Machine => Machine')
      BY <2>5, <3>1 DEF vars, machineVars, vmVars, Machine, Actual
    <3> QED BY <2>2, <3>1, <3>2 DEF Follows
  <2> QED BY <1>2, <2>3, <2>4, <2>5 DEF Next, Finished
<1>3. TypeOK /\ Follows => EnginesAgree
  BY FollowsMeansAgree
<1> QED BY <1>1, <1>2, <1>3, ParityTypeOK, PTL DEF Spec

\* When no program given has a feature on which the engines part, they agree
\* throughout.
THEOREM CleanProgramsRunAlike ==
  HostErrors = {} /\ (\A p \in Programs : PartingFeatures(p) = {}) => (Spec => []EnginesAgree)
<1> SUFFICES ASSUME HostErrors = {}, \A p \in Programs : PartingFeatures(p) = {}
             PROVE  Spec => []EnginesAgree
  OBVIOUS
<1>1. Init => prog \in Programs
  BY DEF Init, InterpInit
<1>2. prog \in Programs /\ [Next]_vars => (prog \in Programs)'
  <2>1. InterpNext => prog' = prog
    BY InterpKeepsProgram
  <2> QED BY <2>1 DEF Next, Interpret, Finished, vars, interpVars
<1>3. prog \in Programs => PartingFeatures(prog) = {}
  OBVIOUS
<1>4. Spec => [](PartingFeatures(prog) = {} => EnginesAgree)
  BY EnginesAgreeOnCleanPrograms
<1> QED BY <1>1, <1>2, <1>3, <1>4, PTL DEF Spec
=============================================================================
