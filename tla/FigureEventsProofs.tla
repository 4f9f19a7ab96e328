------------------------- MODULE FigureEventsProofs -------------------------
(***************************************************************************)
(* Proofs about the events of figures: for any number of figures, calls    *)
(* and events, however callbacks, drains and errors nest.                  *)
(***************************************************************************)
EXTENDS FigureEvents, SequenceTheorems, WellFoundedInduction, TLAPS

-----------------------------------------------------------------------------
(* The stack *)

LEMMA LeastExists ==
  ASSUME NEW S, S \subseteq Handles, S # {}
  PROVE  Least(S) \in S
<1>1. \E x \in S : \A y \in S : ~ (<<y, x>> \in OpToRel(<, Nat))
  BY NatLessThanWellFounded, WFMin, HandlesAssumption, Zenon
<1>2. \A x, y \in S : ~ (<<y, x>> \in OpToRel(<, Nat)) => x <= y
  BY HandlesAssumption DEF OpToRel
<1>3. \E x \in S : \A y \in S : x <= y
  BY <1>1, <1>2, Zenon
<1>. QED BY <1>3, Zenon DEF Least

\* What pop, replace and call do to a stack.
LEMMA PopOf ==
  ASSUME NEW s \in Seq(Entry), s # << >>,
         NEW p, p = SubSeq(s, 1, Len(s) - 1)
  PROVE  /\ p \in Seq(Entry) /\ Len(p) = Len(s) - 1
         /\ \A i \in 1 .. Len(p) : p[i] = s[i]
<1>1. /\ Len(s) \in Nat \ {0}
      /\ \A i \in 1 .. Len(s) - 1 : s[i] \in Entry
  OBVIOUS
<1>2. PICK n \in Nat : n = Len(s) - 1
  BY <1>1
<1>3. /\ p = SubSeq(s, 1, n) /\ 1 \in Int /\ n \in Int
      /\ \A i \in 1 .. n : s[i] \in Entry
  BY <1>1, <1>2
<1>4. /\ p \in Seq(Entry)
      /\ Len(p) = IF 1 <= n THEN n - 1 + 1 ELSE 0
      /\ \A i \in 1 .. n - 1 + 1 : p[i] = s[1 + i - 1]
  BY <1>3, SubSeqProperties
<1>5. Len(p) = n /\ \A i \in 1 .. n : p[i] = s[i]
  BY <1>2, <1>4
<1>. QED BY <1>2, <1>4, <1>5

LEMMA BecomesOf ==
  ASSUME NEW s \in Seq(Entry), s # << >>, NEW e \in Entry,
         NEW r, r = [s EXCEPT ![Len(s)] = e]
  PROVE  /\ r \in Seq(Entry) /\ Len(r) = Len(s) /\ r # << >>
         /\ r[Len(s)] = e
         /\ \A i \in 1 .. Len(s) - 1 : r[i] = s[i]
OBVIOUS

LEMMA AppendOf ==
  ASSUME NEW s \in Seq(Entry), NEW f \in Entry, NEW a, a = Append(s, f)
  PROVE  /\ a \in Seq(Entry) /\ Len(a) = Len(s) + 1
         /\ a[Len(s) + 1] = f
         /\ \A i \in 1 .. Len(s) : a[i] = s[i]
OBVIOUS

LEMMA TopTyped ==
  ASSUME NEW s \in Seq(Entry), s # << >>
  PROVE  Len(s) \in Nat \ {0} /\ s[Len(s)] \in Entry
OBVIOUS

-----------------------------------------------------------------------------
(* The marks of one kind of callback *)

Matched(s, role, active) ==
  /\ \A i \in 1 .. Len(s) : s[i].role = role => s[i].figure \in active
  /\ \A h \in active :
        \E i \in 1 .. Len(s) : s[i].role = role /\ s[i].figure = h
  /\ \A i, j \in 1 .. Len(s) :
        /\ s[i].role = role /\ s[j].role = role
        /\ s[i].figure = s[j].figure
        => i = j

LEMMA MatchedPop ==
  ASSUME NEW s \in Seq(Entry), s # << >>, NEW role, NEW active,
         Matched(s, role, active),
         NEW p, p = SubSeq(s, 1, Len(s) - 1)
  PROVE  Matched(p, role, IF s[Len(s)].role = role
                          THEN active \ {s[Len(s)].figure} ELSE active)
<1>. DEFINE n == Len(s)
            kept == IF s[n].role = role THEN active \ {s[n].figure} ELSE active
<1>1. n \in Nat \ {0} /\ Len(p) = n - 1 /\ \A i \in 1 .. n - 1 : p[i] = s[i]
  BY PopOf, TopTyped
<1>2. ASSUME NEW i \in 1 .. n - 1, p[i].role = role
      PROVE  p[i].figure \in kept
  BY <1>1, <1>2 DEF Matched
<1>3. ASSUME NEW h \in kept
      PROVE  \E i \in 1 .. n - 1 : p[i].role = role /\ p[i].figure = h
  <2>1. PICK i \in 1 .. n : s[i].role = role /\ s[i].figure = h
    BY <1>3 DEF Matched
  <2>2. i # n
    BY <2>1, <1>3
  <2>. QED BY <1>1, <2>1, <2>2
<1>4. \A i, j \in 1 .. n - 1 :
        p[i].role = role /\ p[j].role = role /\ p[i].figure = p[j].figure
        => i = j
  BY <1>1 DEF Matched
<1>. QED BY <1>1, <1>2, <1>3, <1>4 DEF Matched

LEMMA MatchedBecomes ==
  ASSUME NEW s \in Seq(Entry), s # << >>, NEW role, NEW active,
         Matched(s, role, active),
         NEW e \in Entry,
         e.role = s[Len(s)].role, e.figure = s[Len(s)].figure,
         NEW r, r = [s EXCEPT ![Len(s)] = e]
  PROVE  Matched(r, role, active)
<1>1. /\ Len(r) = Len(s)
      /\ \A i \in 1 .. Len(s) : /\ r[i].role = s[i].role
                                /\ r[i].figure = s[i].figure
  BY BecomesOf, TopTyped
<1>2. \A i \in 1 .. Len(r) : r[i].role = role => r[i].figure \in active
  BY <1>1 DEF Matched
<1>3. ASSUME NEW h \in active
      PROVE  \E i \in 1 .. Len(r) : r[i].role = role /\ r[i].figure = h
  <2>1. PICK i \in 1 .. Len(s) : s[i].role = role /\ s[i].figure = h
    BY DEF Matched
  <2>. QED BY <1>1, <2>1
<1>4. ASSUME NEW i \in 1 .. Len(r), NEW j \in 1 .. Len(r),
             r[i].role = role, r[j].role = role, r[i].figure = r[j].figure
      PROVE  i = j
  <2>1. /\ i \in 1 .. Len(s) /\ j \in 1 .. Len(s)
        /\ s[i].role = role /\ s[j].role = role
        /\ s[i].figure = s[j].figure
    BY <1>1, <1>4
  <2>. QED BY <2>1 DEF Matched
<1>. QED BY <1>2, <1>3, <1>4 DEF Matched

LEMMA MatchedAppend ==
  ASSUME NEW s \in Seq(Entry), NEW role, NEW active,
         Matched(s, role, active),
         NEW f \in Entry, f.role = role => f.figure \notin active,
         NEW a, a = Append(s, f)
  PROVE  Matched(a, role, IF f.role = role THEN active \cup {f.figure}
                          ELSE active)
<1>. DEFINE n == Len(s)
            more == IF f.role = role THEN active \cup {f.figure} ELSE active
<1>1. /\ n \in Nat /\ Len(a) = n + 1 /\ a[n + 1] = f
      /\ \A i \in 1 .. n : a[i] = s[i]
  BY AppendOf
<1>2. ASSUME NEW i \in 1 .. n + 1, a[i].role = role
      PROVE  a[i].figure \in more
  <2>1. CASE i = n + 1
    BY <1>1, <1>2, <2>1
  <2>2. CASE i \in 1 .. n
    BY <1>1, <1>2, <2>2 DEF Matched
  <2>. QED BY <1>1, <2>1, <2>2
<1>3. ASSUME NEW h \in more
      PROVE  \E i \in 1 .. n + 1 : a[i].role = role /\ a[i].figure = h
  <2>1. CASE f.role = role /\ h = f.figure
    BY <1>1, <2>1
  <2>2. CASE h \in active
    <3>1. PICK i \in 1 .. n : s[i].role = role /\ s[i].figure = h
      BY <2>2 DEF Matched
    <3>. QED BY <1>1, <3>1
  <2>. QED BY <1>3, <2>1, <2>2
<1>4. ASSUME NEW i \in 1 .. n + 1, NEW j \in 1 .. n + 1,
             a[i].role = role, a[j].role = role, a[i].figure = a[j].figure
      PROVE  i = j
  <2>1. CASE i \in 1 .. n /\ j \in 1 .. n
    BY <1>1, <1>4, <2>1 DEF Matched
  <2>2. CASE i = n + 1 /\ j \in 1 .. n
    <3>1. s[j].role = role /\ s[j].figure = f.figure /\ f.role = role
      BY <1>1, <1>4, <2>2
    <3>. QED BY <3>1, <2>2 DEF Matched
  <2>3. CASE j = n + 1 /\ i \in 1 .. n
    <3>1. s[i].role = role /\ s[i].figure = f.figure /\ f.role = role
      BY <1>1, <1>4, <2>3
    <3>. QED BY <3>1, <2>3 DEF Matched
  <2>. QED BY <1>1, <2>1, <2>2, <2>3
<1>. QED BY <1>1, <1>2, <1>3, <1>4 DEF Matched

-----------------------------------------------------------------------------
(* Where the closes that are owed are kept *)

Answering(e, h) ==
  \/ e.role = "onClose" /\ e.figure = h
  \/ e.kind = "drain" /\ h \in e.closes

Kept(s, closes, queue) ==
  \A h \in closes : h \in queue \/ \E i \in 1 .. Len(s) : Answering(s[i], h)

LEMMA KeptIsClosesAreKept ==
  ASSUME stack \in Seq(Entry)
  PROVE  Kept(stack, owed, pendingCloses) <=> ClosesAreKept
<1>. DOMAIN stack = 1 .. Len(stack)
  OBVIOUS
<1>. QED BY DEF Kept, Answering, ClosesAreKept, Figures, Of

\* Only the program is at the bottom of the stack, only bodies have roles, what
\* runs without a mark was entered by close, and a builtin has no figure to
\* resize whose callback has caused it.
Shaped(s) ==
  \A i \in 1 .. Len(s) :
    /\ s[i].role # "none" => s[i].kind = "body"
    /\ s[i].role = "program" => i = 1
    /\ s[i].role = "onRequest" => i # 1 /\ s[i - 1].kind = "closing"
    /\ s[i].kind = "resized" =>
          \A j \in 1 .. i - 1 : s[j].role = "onResize" =>
                                s[j].figure \notin s[i].resizes

\* What holds of the stack together with the marks, the closes owed and the
\* queue.
Sound(s, ac, ar, closes, queue) ==
  /\ s \in Seq(Entry)
  /\ Shaped(s)
  /\ Matched(s, "onClose", ac) /\ Matched(s, "onResize", ar)
  /\ Kept(s, closes, queue)

\* The closes c2 are in the queue q2, answered by e, or were with neither the
\* queue nor the activity t before.
Covered(c2, q2, e, closes, queue, t) ==
  \A h \in c2 : \/ h \in q2 \/ Answering(e, h)
               \/ (h \in closes /\ h \notin queue /\ ~Answering(t, h))

SameActivity(e, t) ==
  /\ e.role = t.role /\ e.figure = t.figure /\ e.kind = t.kind
  /\ t.kind = "resized" => e.resizes \subseteq t.resizes

ReplaceTop(s, e) == [s EXCEPT ![Len(s)] = e]

LEMMA SoundBecomes ==
  ASSUME NEW s, NEW ac, NEW ar, NEW closes, NEW queue,
         NEW e \in Entry, NEW c2, NEW q2, NEW r,
         Sound(s, ac, ar, closes, queue), s # << >>,
         SameActivity(e, s[Len(s)]),
         Covered(c2, q2, e, closes, queue, s[Len(s)]),
         r = ReplaceTop(s, e)
  PROVE  Sound(r, ac, ar, c2, q2)
<1>0. /\ e.role = s[Len(s)].role /\ e.figure = s[Len(s)].figure
      /\ e.kind = s[Len(s)].kind /\ r = [s EXCEPT ![Len(s)] = e]
  BY DEF SameActivity, ReplaceTop
<1>1. /\ s \in Seq(Entry) /\ Shaped(s)
      /\ Matched(s, "onClose", ac) /\ Matched(s, "onResize", ar)
      /\ Kept(s, closes, queue)
  BY DEF Sound
<1>2. /\ r \in Seq(Entry) /\ Len(r) = Len(s) /\ r # << >>
      /\ r[Len(s)] = e
      /\ \A i \in 1 .. Len(s) - 1 : r[i] = s[i]
  BY <1>0, <1>1, BecomesOf
<1>3. Len(s) \in Nat \ {0}
  BY <1>1, TopTyped
<1>4. Matched(r, "onClose", ac) /\ Matched(r, "onResize", ar)
  BY <1>0, <1>1, MatchedBecomes
<1>5. ASSUME NEW i \in 1 .. Len(r)
      PROVE  /\ r[i].role # "none" => r[i].kind = "body"
             /\ r[i].role = "program" => i = 1
             /\ r[i].role = "onRequest" => i # 1 /\ r[i - 1].kind = "closing"
             /\ r[i].kind = "resized" =>
                  \A j \in 1 .. i - 1 : r[j].role = "onResize" =>
                                        r[j].figure \notin r[i].resizes
  <2>1. CASE i = Len(s)
    <3>1. \A j \in 1 .. i - 1 : r[j] = s[j]
      BY <1>2, <1>3, <2>1
    <3>2. s[i].kind = "resized" => e.resizes \subseteq s[i].resizes
      BY <2>1 DEF SameActivity
    <3>3. i \in 1 .. Len(s) /\ (i # 1 => i - 1 \in 1 .. i - 1)
      BY <1>3, <2>1
    <3>4. i # 1 => r[i - 1] = s[i - 1]
      BY <3>1, <3>3
    <3>5. r[i] = e /\ e.role = s[i].role /\ e.kind = s[i].kind
      BY <1>0, <1>2, <2>1
    <3>. QED BY <1>1, <3>1, <3>2, <3>3, <3>4, <3>5 DEF Shaped
  <2>2. CASE i \in 1 .. Len(s) - 1
    <3>1. /\ i \in 1 .. Len(s) /\ \A j \in 1 .. i : r[j] = s[j]
          /\ i # 1 => i - 1 \in 1 .. i
      BY <1>2, <1>3, <2>2
    <3>2. i # 1 => r[i - 1] = s[i - 1]
      BY <3>1
    <3>3. \A j \in 1 .. i - 1 : r[j] = s[j]
      BY <3>1
    <3>. QED BY <1>1, <3>1, <3>2, <3>3 DEF Shaped
  <2>. QED BY <1>2, <1>3, <2>1, <2>2
<1>6. ASSUME NEW h \in c2, h \notin q2
      PROVE  \E i \in 1 .. Len(r) : Answering(r[i], h)
  <2>1. CASE Answering(e, h)
    BY <1>2, <1>3, <2>1
  <2>2. CASE h \in closes /\ h \notin queue /\ ~Answering(s[Len(s)], h)
    <3>1. PICK i \in 1 .. Len(s) : Answering(s[i], h)
      BY <1>1, <2>2 DEF Kept
    <3>2. i \in 1 .. Len(s) - 1
      BY <1>3, <2>2, <3>1
    <3>. QED BY <1>2, <1>3, <3>1, <3>2
  <2>. QED BY <1>6, <2>1, <2>2 DEF Covered
<1>. QED BY <1>2, <1>4, <1>5, <1>6 DEF Sound, Shaped, Kept

LEMMA SoundAppend ==
  ASSUME NEW s, NEW ac, NEW ar, NEW closes, NEW queue,
         Sound(s, ac, ar, closes, queue), s # << >>,
         NEW f \in Entry,
         f.role # "none" => f.kind = "body",
         f.role # "program",
         f.role = "onRequest" => s[Len(s)].kind = "closing",
         f.role = "onClose" => f.figure \notin ac,
         f.role = "onResize" => f.figure \notin ar,
         f.kind = "resized" => f.resizes \cap ar = {},
         NEW a, a = Append(s, f)
  PROVE  Sound(a, IF f.role = "onClose" THEN ac \cup {f.figure} ELSE ac,
                  IF f.role = "onResize" THEN ar \cup {f.figure} ELSE ar,
               closes, queue)
<1>1. /\ s \in Seq(Entry) /\ Shaped(s)
      /\ Matched(s, "onClose", ac) /\ Matched(s, "onResize", ar)
      /\ Kept(s, closes, queue)
  BY DEF Sound
<1>2. /\ a \in Seq(Entry) /\ Len(a) = Len(s) + 1 /\ Len(s) \in Nat
      /\ a[Len(s) + 1] = f
      /\ \A i \in 1 .. Len(s) : a[i] = s[i]
  BY <1>1, AppendOf, TopTyped
<1>3. /\ Matched(a, "onClose", IF f.role = "onClose" THEN ac \cup {f.figure}
                                ELSE ac)
      /\ Matched(a, "onResize", IF f.role = "onResize" THEN ar \cup {f.figure}
                                 ELSE ar)
  BY <1>1, MatchedAppend
<1>4. ASSUME NEW i \in 1 .. Len(a)
      PROVE  /\ a[i].role # "none" => a[i].kind = "body"
             /\ a[i].role = "program" => i = 1
             /\ a[i].role = "onRequest" => i # 1 /\ a[i - 1].kind = "closing"
             /\ a[i].kind = "resized" =>
                  \A j \in 1 .. i - 1 : a[j].role = "onResize" =>
                                        a[j].figure \notin a[i].resizes
  <2>1. CASE i = Len(s) + 1
    <3>1. \A j \in 1 .. i - 1 : a[j] = s[j] /\ j \in 1 .. Len(s)
      BY <1>2, <2>1
    <3>3. i # 1 /\ i - 1 = Len(s) /\ i - 1 \in 1 .. i - 1
      BY <1>1, <1>2, <2>1, TopTyped
    <3>2. \A j \in 1 .. Len(s) : s[j].role = "onResize" => s[j].figure \in ar
      BY <1>1 DEF Matched
    <3>. QED BY <1>2, <2>1, <3>1, <3>2, <3>3
  <2>2. CASE i \in 1 .. Len(s)
    <3>1. (\A j \in 1 .. i : a[j] = s[j]) /\ (i # 1 => i - 1 \in 1 .. i)
      BY <1>2, <2>2
    <3>. QED BY <1>1, <2>2, <3>1 DEF Shaped
  <2>. QED BY <1>2, <2>1, <2>2
<1>5. ASSUME NEW h \in closes, h \notin queue
      PROVE  \E i \in 1 .. Len(a) : Answering(a[i], h)
  <2>1. PICK i \in 1 .. Len(s) : Answering(s[i], h)
    BY <1>1, <1>5 DEF Kept
  <2>. QED BY <1>2, <2>1
<1>. QED BY <1>2, <1>3, <1>4, <1>5 DEF Sound, Shaped, Kept

LEMMA SoundPop ==
  ASSUME NEW s, NEW ac, NEW ar, NEW closes, NEW queue,
         Sound(s, ac, ar, closes, queue), s # << >>,
         NEW c2, NEW q2,
         \A h \in c2 : \/ h \in q2
                      \/ (h \in closes /\ h \notin queue
                          /\ ~Answering(s[Len(s)], h)),
         NEW p, p = SubSeq(s, 1, Len(s) - 1)
  PROVE  Sound(p, IF s[Len(s)].role = "onClose"
                  THEN ac \ {s[Len(s)].figure} ELSE ac,
                  IF s[Len(s)].role = "onResize"
                  THEN ar \ {s[Len(s)].figure} ELSE ar, c2, q2)
<1>1. /\ s \in Seq(Entry) /\ Shaped(s)
      /\ Matched(s, "onClose", ac) /\ Matched(s, "onResize", ar)
      /\ Kept(s, closes, queue)
  BY DEF Sound
<1>2. /\ p \in Seq(Entry) /\ Len(p) = Len(s) - 1 /\ Len(s) \in Nat \ {0}
      /\ \A i \in 1 .. Len(p) : p[i] = s[i]
  BY <1>1, PopOf, TopTyped
<1>3. /\ Matched(p, "onClose", IF s[Len(s)].role = "onClose"
                               THEN ac \ {s[Len(s)].figure} ELSE ac)
      /\ Matched(p, "onResize", IF s[Len(s)].role = "onResize"
                                THEN ar \ {s[Len(s)].figure} ELSE ar)
  BY <1>1, MatchedPop
<1>4. ASSUME NEW i \in 1 .. Len(p)
      PROVE  /\ p[i].role # "none" => p[i].kind = "body"
             /\ p[i].role = "program" => i = 1
             /\ p[i].role = "onRequest" => i # 1 /\ p[i - 1].kind = "closing"
             /\ p[i].kind = "resized" =>
                  \A j \in 1 .. i - 1 : p[j].role = "onResize" =>
                                        p[j].figure \notin p[i].resizes
  <2>1. /\ i \in 1 .. Len(s) /\ \A j \in 1 .. i : p[j] = s[j]
        /\ i # 1 => i - 1 \in 1 .. i
    BY <1>2
  <2>2. i # 1 => p[i - 1] = s[i - 1]
    BY <2>1
  <2>3. \A j \in 1 .. i - 1 : p[j] = s[j]
    BY <2>1
  <2>. QED BY <1>1, <2>1, <2>2, <2>3 DEF Shaped
<1>5. ASSUME NEW h \in c2, h \notin q2
      PROVE  \E i \in 1 .. Len(p) : Answering(p[i], h)
  <2>1. PICK i \in 1 .. Len(s) : Answering(s[i], h)
    BY <1>1, <1>5 DEF Kept
  <2>2. i \in 1 .. Len(p)
    BY <1>2, <1>5, <2>1
  <2>. QED BY <1>2, <2>1, <2>2
<1>. QED BY <1>2, <1>3, <1>4, <1>5 DEF Sound, Shaped, Kept

-----------------------------------------------------------------------------
(* The inductive invariant *)

Typed ==
  /\ Live \subseteq Handles
  /\ figures \in [Live -> Callbacks]
  /\ current \in Handles \cup {None}
  /\ closeFiles \subseteq Handles /\ positionFiles \subseteq Handles
  /\ pendingCloses \subseteq Handles /\ pendingResizes \subseteq Handles
  /\ activeCloses \subseteq Handles /\ activeResizes \subseteq Handles
  /\ error \in {"none", "failed", "gone"}
  /\ owed \subseteq Handles
  /\ calls \in 0 .. MaxCalls /\ events \in 0 .. MaxEvents
  /\ CurrentFigureIsLive

SoundNow == Sound(stack, activeCloses, activeResizes, owed, pendingCloses)

IInv == Typed /\ SoundNow

LEMMA InvImplies == IInv => TypeOK /\ MarksMatchStack /\ CurrentFigureIsLive
                              /\ ClosesAreKept
<1>1. ASSUME stack \in Seq(Entry), NEW role, NEW active,
             Matched(stack, role, active)
      PROVE  active = Figures(Of(role)) /\ OneEach(Of(role))
  <2>1. DOMAIN stack = 1 .. Len(stack)
    BY <1>1
  <2>. QED BY <1>1, <2>1 DEF Matched, Figures, Of, OneEach
<1>2. SoundNow => /\ stack \in Seq(Entry)
                  /\ Matched(stack, "onClose", activeCloses)
                  /\ Matched(stack, "onResize", activeResizes)
                  /\ Kept(stack, owed, pendingCloses)
  BY DEF SoundNow, Sound
<1>m. ASSUME SoundNow, NEW i \in DOMAIN stack, NEW j \in DOMAIN stack, i < j,
             stack[i].role \in CloseRoles, stack[j].role \in CloseRoles,
             stack[i].figure = stack[j].figure
      PROVE  \E k \in {i, j} : /\ stack[k].role = "onRequest"
                               /\ stack[k - 1].kind = "closing"
  <2>1. /\ stack \in Seq(Entry) /\ Shaped(stack)
        /\ Matched(stack, "onClose", activeCloses)
    BY <1>m DEF SoundNow, Sound
  <2>2. i \in 1 .. Len(stack) /\ j \in 1 .. Len(stack) /\ i # j
    BY <1>m, <2>1
  <2>3. ~(stack[i].role = "onClose" /\ stack[j].role = "onClose")
    BY <1>m, <2>1, <2>2 DEF Matched
  <2>4. PICK k \in {i, j} : stack[k].role = "onRequest"
    BY <1>m, <2>3 DEF CloseRoles
  <2>. QED BY <2>1, <2>2, <2>4 DEF Shaped
<1>3. SoundNow => MarksMatchStack
  BY <1>1, <1>2, <1>m DEF MarksMatchStack
<1>4. SoundNow => ClosesAreKept
  BY <1>2, KeptIsClosesAreKept
<1>. QED BY <1>2, <1>3, <1>4 DEF IInv, Typed, TypeOK

LEMMA InitHolds == Init => IInv
<1>. SUFFICES ASSUME Init PROVE IInv
  OBVIOUS
<1>1. stack = <<Body("program", None)>> /\ Body("program", None) \in Entry
  BY DEF Init, Body, Entry, Kinds, Roles, None
<1>2. /\ stack \in Seq(Entry) /\ Len(stack) = 1
      /\ stack[1].role = "program" /\ stack[1].kind = "body"
  BY <1>1 DEF Body
<1>3. SoundNow
  BY <1>2 DEF Init, SoundNow, Sound, Shaped, Matched, Kept
<1>4. Typed
  BY BoundsAssumption DEF Init, Typed, Live, CurrentFigureIsLive
<1>. QED BY <1>3, <1>4 DEF IInv

\* What deleting figures does to the figures and to the current one.
LEMMA DeletedFigures ==
  ASSUME Typed, NEW h \in Live,
         figures' = Without({h}), current' = CurrentWithout({h})
  PROVE  /\ Live' = Live \ {h} /\ Live' \subseteq Handles
         /\ figures' \in [Live' -> Callbacks]
         /\ current' \in Handles \cup {None} /\ CurrentFigureIsLive'
<1>1. /\ Live' = Live \ {h} /\ Live' \subseteq Handles
      /\ figures' \in [Live' -> Callbacks]
  BY DEF Typed, Live, Without
<1>2. Live \ {h} # {} => Least(Live \ {h}) \in Live \ {h}
  BY LeastExists DEF Typed
<1>3. current' = None \/ current' \in Live'
  BY <1>1, <1>2 DEF Typed, CurrentWithout, CurrentFigureIsLive
<1>. QED BY <1>1, <1>3 DEF CurrentFigureIsLive

LEMMA ShownFigure ==
  ASSUME Typed, NEW h \in Handles, NEW c \in Callbacks, Shown(h, c)
  PROVE  /\ Live' = Live \cup {h} /\ Live' \subseteq Handles
         /\ figures' \in [Live' -> Callbacks]
         /\ current' \in Handles \cup {None} /\ CurrentFigureIsLive'
BY DEF Typed, Live, Shown, CurrentFigureIsLive

\* The state of a running activity.
LEMMA TopIs ==
  ASSUME SoundNow, stack # << >>
  PROVE  /\ Top \in Entry /\ stack \in Seq(Entry)
         /\ Top.role # "none" => Top.kind = "body"
         /\ Top.role = "program" => Depth = 1
         /\ Top = stack[Len(stack)]
         /\ Top.kind # "body" => Top.role = "none"
<1>1. stack \in Seq(Entry) /\ Shaped(stack)
  BY DEF SoundNow, Sound
<1>2. Depth \in Nat \ {0} /\ Top \in Entry
  BY <1>1, TopTyped DEF Top, Depth
<1>3. Depth \in 1 .. Len(stack)
  BY <1>2 DEF Depth
<1>. QED BY <1>1, <1>2, <1>3 DEF Shaped, Top, Depth

\* The ways a step changes the stack.
LEMMA SoundIfBecomes ==
  ASSUME SoundNow, stack # << >>, NEW e \in Entry, SameActivity(e, Top),
         stack' = Becomes(e), UNCHANGED marks,
         Covered(owed', pendingCloses', e, owed, pendingCloses, Top)
  PROVE  SoundNow'
<1>1. stack' = ReplaceTop(stack, e) /\ Top = stack[Len(stack)]
  BY DEF Becomes, Depth, Top, ReplaceTop
<1>2. Sound(stack, activeCloses, activeResizes, owed, pendingCloses)
  BY DEF SoundNow
<1>3. Sound(stack', activeCloses, activeResizes, owed', pendingCloses')
  BY <1>1, <1>2, SoundBecomes
<1>. QED BY <1>3 DEF SoundNow, marks

\* A call: the activity on top notes what it has done, and another one starts.
LEMMA SoundCalls ==
  ASSUME NEW s, NEW ac, NEW ar, NEW closes, NEW queue,
         Sound(s, ac, ar, closes, queue), s # << >>,
         NEW e \in Entry, NEW f \in Entry,
         SameActivity(e, s[Len(s)]),
         f.role # "none" => f.kind = "body",
         f.role # "program",
         f.role = "onRequest" => s[Len(s)].kind = "closing",
         f.role = "onClose" => f.figure \notin ac,
         f.role = "onResize" => f.figure \notin ar,
         f.kind = "resized" => f.resizes \cap ar = {},
         \A h \in closes : Answering(s[Len(s)], h) =>
                            Answering(e, h) \/ Answering(f, h),
         NEW r, r = ReplaceTop(s, e), NEW a, a = Append(r, f)
  PROVE  Sound(a, IF f.role = "onClose" THEN ac \cup {f.figure} ELSE ac,
                  IF f.role = "onResize" THEN ar \cup {f.figure} ELSE ar,
               closes, queue)
<1>1. PICK kept : kept = {h \in closes : ~Answering(f, h)}
  OBVIOUS
<1>2. Covered(kept, queue, e, closes, queue, s[Len(s)])
  BY <1>1 DEF Covered
<1>3. Sound(r, ac, ar, kept, queue)
  BY <1>2, SoundBecomes
<1>n. r # << >> /\ (f.role = "onRequest" => r[Len(r)].kind = "closing")
  <2>1. /\ s \in Seq(Entry) /\ r = [s EXCEPT ![Len(s)] = e]
        /\ e.kind = s[Len(s)].kind
    BY DEF Sound, ReplaceTop, SameActivity
  <2>. QED BY <2>1, BecomesOf
<1>4. Sound(a, IF f.role = "onClose" THEN ac \cup {f.figure} ELSE ac,
               IF f.role = "onResize" THEN ar \cup {f.figure} ELSE ar,
            kept, queue)
  BY <1>3, <1>n, SoundAppend
<1>5. \E i \in 1 .. Len(a) : a[i] = f
  <2>1. r \in Seq(Entry)
    BY <1>3 DEF Sound
  <2>2. Len(a) = Len(r) + 1 /\ Len(r) \in Nat /\ a[Len(r) + 1] = f
    BY <2>1, AppendOf
  <2>. QED BY <2>2
<1>6. Kept(a, closes, queue)
  BY <1>1, <1>4, <1>5 DEF Sound, Kept
<1>. QED BY <1>4, <1>6 DEF Sound

LEMMA SoundIfCalls ==
  ASSUME SoundNow, stack # << >>, NEW e \in Entry, NEW f \in Entry,
         SameActivity(e, Top), stack' = Calls(e, f),
         f.role # "none" => f.kind = "body",
         f.role # "program",
         f.role = "onRequest" => Top.kind = "closing",
         f.role = "onClose" => f.figure \notin activeCloses,
         f.role = "onResize" => f.figure \notin activeResizes,
         f.kind = "resized" => f.resizes \cap activeResizes = {},
         activeCloses' = IF f.role = "onClose"
                         THEN activeCloses \cup {f.figure} ELSE activeCloses,
         activeResizes' = IF f.role = "onResize"
                          THEN activeResizes \cup {f.figure} ELSE activeResizes,
         UNCHANGED <<owed, pendingCloses>>,
         \A h \in owed : Answering(Top, h) =>
                          Answering(e, h) \/ Answering(f, h)
  PROVE  SoundNow'
<1>1. PICK r : r = ReplaceTop(stack, e)
  OBVIOUS
<1>2. stack' = Append(r, f) /\ Top = stack[Len(stack)]
  BY <1>1 DEF Calls, Becomes, Depth, Top, ReplaceTop
<1>3. Sound(stack, activeCloses, activeResizes, owed, pendingCloses)
  BY DEF SoundNow
<1>4. Sound(stack', activeCloses', activeResizes', owed, pendingCloses)
  BY <1>1, <1>2, <1>3, SoundCalls
<1>. QED BY <1>4 DEF SoundNow

LEMMA SoundIfPops ==
  ASSUME SoundNow, stack # << >>, stack' = Pop,
         activeCloses' = IF Top.role = "onClose"
                         THEN activeCloses \ {Top.figure} ELSE activeCloses,
         activeResizes' = IF Top.role = "onResize"
                          THEN activeResizes \ {Top.figure} ELSE activeResizes,
         \A h \in owed' : \/ h \in pendingCloses'
                         \/ (h \in owed /\ h \notin pendingCloses
                             /\ ~Answering(Top, h))
  PROVE  SoundNow'
<1>1. stack' = SubSeq(stack, 1, Len(stack) - 1) /\ Top = stack[Len(stack)]
  BY DEF Pop, Depth, Top
<1>2. Sound(stack, activeCloses, activeResizes, owed, pendingCloses)
  BY DEF SoundNow
<1>3. Sound(stack', activeCloses', activeResizes', owed', pendingCloses')
  BY <1>1, <1>2, SoundPop
<1>. QED BY <1>3 DEF SoundNow

-----------------------------------------------------------------------------
(* Every step keeps the invariant. *)

\* A flush adds what it finds to the queue and to what is owed.
LEMMA Flushed ==
  ASSUME Typed, SoundNow, NEW live, live \subseteq Handles, Flush(live)
  PROVE  /\ closeFiles' \subseteq Handles /\ positionFiles' \subseteq Handles
         /\ pendingCloses' \subseteq Handles
         /\ pendingResizes' \subseteq Handles
         /\ pendingCloses' = pendingCloses \cup (closeFiles \cap live)
BY DEF Typed, Flush

LEMMA Activities ==
  ASSUME NEW closes \in SUBSET Handles, NEW resizes \in SUBSET Handles,
         NEW kind \in Kinds
  PROVE  /\ Activity(kind, closes, resizes) \in Entry
         /\ Activity(kind, closes, resizes).role = "none"
         /\ Activity(kind, closes, resizes).kind = kind
         /\ Activity(kind, closes, resizes).closes = closes
         /\ Activity(kind, closes, resizes).resizes = resizes
BY DEF Activity, Entry, Roles, None

LEMMA Bodies ==
  ASSUME NEW role \in {"onClose", "onRequest", "onResize"}, NEW h \in Handles
  PROVE  /\ Body(role, h) \in Entry
         /\ Body(role, h).role = role
         /\ Body(role, h).kind = "body"
         /\ Body(role, h).figure = h
BY DEF Body, Entry, Kinds, Roles

LEMMA BusyIs ==
  ASSUME SoundNow, MayCall, NEW flag \in BOOLEAN
  PROVE  /\ stack # << >> /\ Top.kind = "body"
         /\ [Top EXCEPT !.dirty = flag] \in Entry
         /\ SameActivity([Top EXCEPT !.dirty = flag], Top)
         /\ \A h : Answering(Top, h) => Answering([Top EXCEPT !.dirty = flag], h)
<1>1. Top \in Entry /\ stack # << >> /\ Top.kind = "body"
  BY TopIs DEF MayCall, Running
<1>. QED BY <1>1 DEF Entry, SameActivity, Answering

LEMMA CallsKeep ==
  ASSUME IInv, CallFigure \/ CallSet \/ CallClose
  PROVE  IInv'
<1>. USE DEF IInv
<1>1. /\ stack # << >> /\ Top.kind = "body" /\ Busy \in Entry
      /\ SameActivity(Busy, Top)
      /\ \A h : Answering(Top, h) => Answering(Busy, h)
  BY BusyIs DEF CallFigure, CallSet, CallClose, Busy
<1>2. calls' \in 0 .. MaxCalls
  BY BoundsAssumption DEF CallFigure, CallSet, CallClose, MayCall, Typed
<1>3. CASE CallFigure
  <2>1. PICK h \in Handles, c \in Callbacks, moved \in BOOLEAN :
          /\ Shown(h, c)
          /\ stack' = Calls(Busy, Activity("resized", {},
               IF c.resize /\ (moved \/ h \notin Live) THEN {h} \ activeResizes
               ELSE {}))
    BY <1>3 DEF CallFigure
  <2>2. /\ Live' \subseteq Handles /\ figures' \in [Live' -> Callbacks]
        /\ current' \in Handles \cup {None} /\ CurrentFigureIsLive'
    BY <2>1, ShownFigure
  <2>3. Typed'
    BY <1>2, <1>3, <2>2 DEF Typed, CallFigure, queues, marks
  <2>4. PICK f \in Entry : /\ stack' = Calls(Busy, f)
                           /\ f.role = "none"
                           /\ f.resizes \cap activeResizes = {}
    <3>1. PICK R : R = IF c.resize /\ (moved \/ h \notin Live)
                       THEN {h} \ activeResizes ELSE {}
      OBVIOUS
    <3>2. R \in SUBSET Handles /\ R \cap activeResizes = {}
      BY <3>1
    <3>. QED BY <2>1, <3>1, <3>2, Activities DEF Kinds
  <2>5. SoundNow'
    BY <1>1, <1>3, <2>4, SoundIfCalls DEF CallFigure, queues, marks
  <2>. QED BY <2>3, <2>5
<1>4. CASE CallSet
  <2>1. PICK H \in SUBSET Live :
          stack' = Calls(Busy, Activity("resized", {},
                     {h \in H \ activeResizes : figures[h].resize}))
    BY <1>4 DEF CallSet
  <2>2. Typed'
    BY <1>2, <1>4 DEF Typed, Live, CallSet, CurrentFigureIsLive, queues, marks
  <2>3. PICK R : R = {h \in H \ activeResizes : figures[h].resize}
    OBVIOUS
  <2>4. PICK f \in Entry : /\ stack' = Calls(Busy, f) /\ f.role = "none"
                           /\ f.resizes \cap activeResizes = {}
    <3>1. Live \subseteq Handles
      BY DEF Typed
    <3>2. /\ R \in SUBSET Handles /\ R \cap activeResizes = {}
          /\ stack' = Calls(Busy, Activity("resized", {}, R))
      BY <2>1, <2>3, <3>1
    <3>. QED BY <3>2, Activities DEF Kinds
  <2>5. SoundNow'
    BY <1>1, <1>4, <2>4, SoundIfCalls DEF CallSet, queues, marks
  <2>. QED BY <2>2, <2>5
<1>5. CASE CallClose
  <2>1. PICK H \in SUBSET Live :
          stack' = Calls(Busy, Activity("closing", H, {}))
    BY <1>5 DEF CallClose
  <2>2. Typed'
    BY <1>2, <1>5 DEF Typed, Live, CallClose, CurrentFigureIsLive, queues, marks
  <2>3. H \in SUBSET Handles
    BY DEF Typed
  <2>4. PICK f \in Entry : /\ stack' = Calls(Busy, f) /\ f.role = "none"
                           /\ f.kind = "closing"
    BY <2>1, <2>3, Activities DEF Kinds
  <2>5. SoundNow'
    BY <1>1, <1>5, <2>4, SoundIfCalls DEF CallClose, queues, marks
  <2>. QED BY <2>2, <2>5
<1>. QED BY <1>3, <1>4, <1>5

LEMMA DeletesKeep ==
  ASSUME IInv, CallDelete \/ CallDrawnow
  PROVE  IInv'
<1>. USE DEF IInv
<1>1. /\ stack # << >> /\ Top.kind = "body" /\ Busy \in Entry
      /\ SameActivity(Busy, Top)
      /\ \A h : Answering(Top, h) => Answering(Busy, h)
  BY BusyIs DEF CallDelete, CallDrawnow, Busy
<1>2. calls' \in 0 .. MaxCalls
  BY BoundsAssumption DEF CallDelete, CallDrawnow, MayCall, Typed
<1>3. ASSUME NEW live, live \subseteq Live, Flush(live), stack' = Becomes(Busy),
             UNCHANGED marks,
             owed' \subseteq owed \cup (closeFiles \cap live)
      PROVE  SoundNow'
  <2>1. pendingCloses' = pendingCloses \cup (closeFiles \cap live)
    BY <1>3 DEF Flush
  <2>2. Covered(owed', pendingCloses', Busy, owed, pendingCloses, Top)
    BY <1>1, <1>3, <2>1 DEF Covered
  <2>. QED BY <1>1, <1>3, <2>2, SoundIfBecomes
<1>4. CASE CallDelete
  <2>1. PICK h \in Live :
          /\ figures' = Without({h}) /\ current' = CurrentWithout({h})
          /\ Flush(Live \ {h})
          /\ owed' = (owed \ {h}) \cup (closeFiles \cap (Live \ {h}))
    BY <1>4 DEF CallDelete
  <2>2. /\ Live' \subseteq Handles /\ figures' \in [Live' -> Callbacks]
        /\ current' \in Handles \cup {None} /\ CurrentFigureIsLive'
    BY <2>1, DeletedFigures
  <2>3. Live \ {h} \subseteq Handles
    BY DEF Typed
  <2>4. Typed'
    BY <1>2, <1>4, <2>1, <2>2, <2>3, Flushed DEF Typed, CallDelete, marks
  <2>5. SoundNow'
    BY <1>3, <1>4, <2>1 DEF CallDelete
  <2>. QED BY <2>4, <2>5
<1>5. CASE CallDrawnow
  <2>1. /\ Flush(Live) /\ owed' = owed \cup (closeFiles \cap Live)
        /\ stack' = Becomes(Busy) /\ UNCHANGED <<figures, current, marks>>
        /\ UNCHANGED <<error, events>>
    BY <1>5 DEF CallDrawnow
  <2>2. Live \subseteq Handles
    BY DEF Typed
  <2>3. Typed'
    BY <1>2, <2>1, <2>2, Flushed DEF Typed, Live, CurrentFigureIsLive, marks
  <2>4. SoundNow'
    BY <1>3, <2>1
  <2>. QED BY <2>3, <2>4
<1>. QED BY <1>4, <1>5

LEMMA BodiesKeep ==
  ASSUME IInv, CallFails \/ EndStatement \/ CallbackEnds \/ ProgramEnds
               \/ UserEvent
  PROVE  IInv'
<1>. USE DEF IInv
<1>0. CASE CallFails
  <2>1. /\ calls' \in 0 .. MaxCalls /\ error' = "failed"
        /\ UNCHANGED <<queues, marks, stack, owed, events>>
    BY <1>0, BoundsAssumption DEF CallFails, MayCall, Typed
  <2>2. /\ Live' \subseteq Handles /\ figures' \in [Live' -> Callbacks]
        /\ current' \in Handles \cup {None} /\ CurrentFigureIsLive'
    <3>1. CASE UNCHANGED <<figures, current>>
      BY <3>1 DEF Typed, Live, CurrentFigureIsLive
    <3>2. CASE \E h \in Handles, c \in Callbacks : Shown(h, c)
      BY <3>2, ShownFigure
    <3>. QED BY <1>0, <3>1, <3>2 DEF CallFails
  <2>3. Typed'
    BY <2>1, <2>2 DEF Typed, queues, marks
  <2>4. SoundNow'
    BY <2>1 DEF SoundNow, queues, marks
  <2>. QED BY <2>3, <2>4
<1>1. CASE UserEvent
  <2>1. Typed'
    BY <1>1, BoundsAssumption
    DEF UserEvent, Typed, Live, CurrentFigureIsLive, marks
  <2>2. SoundNow'
    BY <1>1 DEF UserEvent, SoundNow, queues, marks
  <2>. QED BY <2>1, <2>2
<1>2. CASE EndStatement
  <2>1. Typed'
    BY <1>2 DEF EndStatement, Typed, Live, CurrentFigureIsLive, queues, marks,
                counts
  <2>2. PICK e \in Entry : /\ e = [Top EXCEPT !.dirty = FALSE]
                           /\ SameActivity(e, Top)
                           /\ \A h : Answering(Top, h) => Answering(e, h)
    <3>1. Top \in Entry
      BY <1>2, TopIs DEF EndStatement, Running
    <3>2. /\ [Top EXCEPT !.dirty = FALSE] \in Entry
          /\ SameActivity([Top EXCEPT !.dirty = FALSE], Top)
          /\ \A h : Answering(Top, h) =>
                    Answering([Top EXCEPT !.dirty = FALSE], h)
      BY <3>1 DEF Entry, SameActivity, Answering
    <3>. QED BY <3>2
  <2>3. PICK f \in Entry : /\ stack' = Calls(e, f) /\ f.role = "none"
                           /\ f.kind = "drain"
    BY <1>2, <2>2, Activities DEF EndStatement, Kinds
  <2>4. SoundNow'
    BY <1>2, <2>2, <2>3, SoundIfCalls
    DEF EndStatement, Running, queues, marks
  <2>. QED BY <2>1, <2>4
<1>3. CASE CallbackEnds
  <2>1. Typed'
    BY <1>3 DEF CallbackEnds, Unmarked, Typed, Live, CurrentFigureIsLive, queues,
                counts
  <2>2. \A h \in owed' : h \in owed /\ ~Answering(Top, h)
    <3>1. /\ Top.kind = "body"
          /\ owed' = IF Top.role = "onClose" THEN owed \ {Top.figure} ELSE owed
      BY <1>3 DEF CallbackEnds, Running, Unmarked
    <3>. QED BY <3>1 DEF Answering
  <2>3. SoundNow'
    BY <1>3, <2>2, SoundIfPops DEF CallbackEnds, Running, Unmarked, queues
  <2>. QED BY <2>1, <2>3
<1>4. CASE ProgramEnds
  <2>1. Live \subseteq Handles
    BY DEF Typed
  <2>2. Typed'
    BY <1>4, <2>1, Flushed
    DEF ProgramEnds, Typed, Live, CurrentFigureIsLive, marks, counts
  <2>3. /\ Top = stack[1] /\ Top.role = "program" /\ Top.kind = "body"
        /\ Len(stack) = 1
    BY <1>4, TopIs DEF ProgramEnds, Running, Depth, Top
  <2>4. activeCloses = {} /\ activeResizes = {}
    BY <2>3 DEF SoundNow, Sound, Matched
  <2>5. owed \subseteq pendingCloses
    BY <2>3 DEF SoundNow, Sound, Kept, Answering
  <2>6. /\ stack' = << >> /\ activeCloses' = {} /\ activeResizes' = {}
        /\ owed' \subseteq pendingCloses'
    BY <1>4, <2>4, <2>5 DEF ProgramEnds, Flush, marks
  <2>7. SoundNow'
    BY <2>6 DEF SoundNow, Sound, Shaped, Matched, Kept
  <2>. QED BY <2>2, <2>7
<1>. QED BY <1>0, <1>1, <1>2, <1>3, <1>4

\* The entries that take the place of the one on top.
LEMMA Rests ==
  ASSUME SoundNow, stack # << >>,
         NEW closes \in SUBSET Handles, NEW resizes \in SUBSET Handles,
         NEW flag \in BOOLEAN,
         Top.kind = "resized" => resizes \subseteq Top.resizes,
         NEW e, \/ e = [Top EXCEPT !.closes = closes]
                \/ e = [Top EXCEPT !.resizes = resizes]
                \/ e = [Top EXCEPT !.closes = closes, !.dirty = flag]
                \/ e = [Top EXCEPT !.resizes = resizes, !.dirty = flag]
                \/ e = [Top EXCEPT !.closes = closes, !.resizes = resizes]
                \/ e = [Top EXCEPT !.dirty = flag]
  PROVE  e \in Entry /\ SameActivity(e, Top)
BY TopIs DEF Entry, SameActivity

LEMMA BuiltinsKeep ==
  ASSUME IInv, CloseNext \/ ResizedNext \/ BuiltinEnds
  PROVE  IInv'
<1>. USE DEF IInv
<1>1. CASE CloseNext
  <2>1. /\ stack # << >> /\ Top.kind = "closing" /\ Top \in Entry
        /\ Top.role = "none"
    BY <1>1, TopIs DEF CloseNext, Running
  <2>2. UNCHANGED <<queues, marks, counts>>
    BY <1>1 DEF CloseNext
  <2>3. PICK h, rest :
          /\ h \in Top.closes
          /\ rest = [Top EXCEPT !.closes = @ \ {h}]
          /\ \/ /\ error' = "gone"
                /\ UNCHANGED <<figures, current, stack, owed>>
             \/ /\ h \in Live
                /\ current' = h
                /\ stack' = Calls(rest, Body("onRequest", h))
                /\ UNCHANGED <<figures, error, owed>>
             \/ /\ h \in Live
                /\ figures' = Without({h})
                /\ current' = CurrentWithout({h})
                /\ owed' = owed \ {h}
                /\ stack' = Becomes(rest)
                /\ UNCHANGED error
    BY <1>1 DEF CloseNext
  <2>4. /\ h \in Handles /\ rest \in Entry /\ SameActivity(rest, Top)
    <3>1. Top.closes \in SUBSET Handles
      BY <2>1 DEF Entry
    <3>2. rest = [Top EXCEPT !.closes = Top.closes \ {h}]
      BY <2>3
    <3>3. Top.closes \ {h} \in SUBSET Handles
      BY <3>1
    <3>. QED BY <2>1, <2>3, <3>1, <3>2, <3>3, Rests
  <2>5. \A j : ~Answering(Top, j)
    BY <2>1 DEF Answering
  <2>6. CASE error' = "gone" /\ UNCHANGED <<figures, current, stack, owed>>
    <3>1. Typed'
      BY <2>2, <2>6 DEF Typed, Live, CurrentFigureIsLive, queues, marks, counts
    <3>. QED BY <2>2, <2>6, <3>1 DEF SoundNow, queues, marks
  <2>7. CASE /\ h \in Live /\ current' = h
             /\ stack' = Calls(rest, Body("onRequest", h))
             /\ UNCHANGED <<figures, error, owed>>
    <3>1. Typed'
      BY <2>2, <2>4, <2>7
      DEF Typed, Live, CurrentFigureIsLive, queues, marks, counts
    <3>2. PICK f \in Entry : /\ f = Body("onRequest", h)
                             /\ f.role = "onRequest" /\ f.kind = "body"
      BY <2>4, Bodies
    <3>3. SoundNow'
      BY <2>1, <2>2, <2>4, <2>5, <2>7, <3>2, SoundIfCalls DEF queues, marks
    <3>. QED BY <3>1, <3>3
  <2>8. CASE /\ h \in Live /\ figures' = Without({h})
             /\ current' = CurrentWithout({h})
             /\ owed' = owed \ {h} /\ stack' = Becomes(rest)
             /\ UNCHANGED error
    <3>1. /\ Live' \subseteq Handles /\ figures' \in [Live' -> Callbacks]
          /\ current' \in Handles \cup {None} /\ CurrentFigureIsLive'
      BY <2>8, DeletedFigures
    <3>2. Typed'
      BY <2>2, <2>8, <3>1 DEF Typed, queues, marks, counts
    <3>3. Covered(owed', pendingCloses', rest, owed, pendingCloses, Top)
      BY <2>2, <2>5, <2>8 DEF Covered, queues
    <3>4. SoundNow'
      BY <2>1, <2>2, <2>4, <2>8, <3>3, SoundIfBecomes
    <3>. QED BY <3>2, <3>4
  <2>. QED BY <2>3, <2>6, <2>7, <2>8
<1>2. CASE ResizedNext
  <2>1. /\ stack # << >> /\ Top.kind = "resized" /\ Top \in Entry
        /\ Top.role = "none" /\ Top.resizes # {}
        /\ Top.resizes \subseteq Handles
    BY <1>2, TopIs DEF ResizedNext, Running, Entry
  <2>2. PICK h \in Top.resizes : h = Least(Top.resizes)
    BY <2>1, LeastExists
  <2>3. PICK rest : rest = [Top EXCEPT !.resizes = Top.resizes \ {h}]
    OBVIOUS
  <2>4. /\ UNCHANGED <<figures, queues, activeCloses, owed, counts>>
        /\ \/ /\ error' = "gone"
              /\ UNCHANGED <<current, activeResizes, stack>>
           \/ /\ h \in Live /\ current' = h
              /\ activeResizes' = activeResizes \cup {h}
              /\ stack' = Calls(rest, Body("onResize", h))
              /\ UNCHANGED error
    BY <1>2, <2>2, <2>3 DEF ResizedNext
  <2>5. rest \in Entry /\ SameActivity(rest, Top) /\ h \in Handles
    <3>1. Top.resizes \ {h} \in SUBSET Handles
      BY <2>1
    <3>. QED BY <2>1, <2>3, <3>1, Rests
  <2>6. \A j : ~Answering(Top, j)
    BY <2>1 DEF Answering
  <2>7. CASE error' = "gone" /\ UNCHANGED <<current, activeResizes, stack>>
    <3>1. Typed'
      BY <2>4, <2>7 DEF Typed, Live, CurrentFigureIsLive, queues, counts
    <3>. QED BY <2>4, <2>7, <3>1 DEF SoundNow, queues
  <2>8. CASE /\ h \in Live /\ current' = h
             /\ activeResizes' = activeResizes \cup {h}
             /\ stack' = Calls(rest, Body("onResize", h))
             /\ UNCHANGED error
    <3>1. Typed'
      BY <2>4, <2>5, <2>8 DEF Typed, Live, CurrentFigureIsLive, queues, counts
    <3>2. PICK f \in Entry : /\ f = Body("onResize", h) /\ f.figure = h
                             /\ f.role = "onResize" /\ f.kind = "body"
      BY <2>5, Bodies
    <3>3. h \notin activeResizes
      <4>1. SUFFICES ASSUME h \in activeResizes PROVE FALSE
        OBVIOUS
      <4>2. PICK i \in 1 .. Len(stack) : /\ stack[i].role = "onResize"
                                         /\ stack[i].figure = h
        BY <4>1 DEF SoundNow, Sound, Matched
      <4>3. /\ Top = stack[Len(stack)] /\ i # Len(stack)
            /\ Len(stack) \in Nat \ {0} /\ Shaped(stack)
        BY <2>1, <4>2, TopTyped DEF Top, Depth, SoundNow, Sound
      <4>4. i \in 1 .. Len(stack) - 1 /\ Len(stack) \in 1 .. Len(stack)
        BY <4>2, <4>3
      <4>. QED BY <2>1, <4>2, <4>3, <4>4 DEF Shaped
    <3>4. SoundNow'
      BY <2>1, <2>4, <2>5, <2>6, <2>8, <3>2, <3>3, SoundIfCalls DEF queues
    <3>. QED BY <3>1, <3>4
  <2>. QED BY <2>4, <2>7, <2>8
<1>3. CASE BuiltinEnds
  <2>1. /\ stack # << >> /\ Top.role = "none" /\ Top.kind # "drain"
    BY <1>3, TopIs DEF BuiltinEnds, Running
  <2>2. /\ Flush(Live) /\ owed' = owed \cup (closeFiles \cap Live)
        /\ stack' = Pop
        /\ UNCHANGED <<figures, current, marks, error, counts>>
    BY <1>3 DEF BuiltinEnds
  <2>3. Live \subseteq Handles
    BY DEF Typed
  <2>4. Typed'
    BY <2>2, <2>3, Flushed DEF Typed, Live, CurrentFigureIsLive, marks, counts
  <2>5. \A h : ~Answering(Top, h)
    BY <2>1 DEF Answering
  <2>6. pendingCloses' = pendingCloses \cup (closeFiles \cap Live)
    BY <2>2 DEF Flush
  <2>7. SoundNow'
    BY <2>1, <2>2, <2>5, <2>6, SoundIfPops DEF marks
  <2>. QED BY <2>4, <2>7
<1>. QED BY <1>1, <1>2, <1>3

LEMMA DrainIs ==
  ASSUME SoundNow, Running("drain")
  PROVE  /\ stack # << >> /\ Top.kind = "drain" /\ Top \in Entry
         /\ Top.role = "none"
         /\ Top.closes \in SUBSET Handles /\ Top.resizes \in SUBSET Handles
         /\ \A h : Answering(Top, h) <=> h \in Top.closes
<1>1. /\ stack # << >> /\ Top.kind = "drain" /\ Top \in Entry
      /\ Top.role = "none"
  BY TopIs DEF Running
<1>. QED BY <1>1 DEF Entry, Answering

LEMMA QueuesKeep ==
  ASSUME IInv, DrainTakes \/ DrainFlushes \/ DrainEnds
  PROVE  IInv'
<1>. USE DEF IInv
<1>1. /\ stack # << >> /\ Top.kind = "drain" /\ Top \in Entry
      /\ Top.role = "none" /\ Top.closes = {}
      /\ \A h : Answering(Top, h) <=> h \in Top.closes
  BY DrainIs DEF DrainTakes, DrainFlushes, DrainEnds, DrainIdle
<1>2. CASE DrainTakes
  <2>1. PICK e : e = [Top EXCEPT !.closes = pendingCloses,
                                 !.resizes = pendingResizes]
    OBVIOUS
  <2>2. Typed'
    BY <1>2 DEF DrainTakes, Typed, Live, CurrentFigureIsLive, marks, counts
  <2>3. pendingCloses \in SUBSET Handles /\ pendingResizes \in SUBSET Handles
    BY DEF Typed
  <2>4. e \in Entry /\ SameActivity(e, Top)
    BY <1>1, <2>1, <2>3, Rests
  <2>5. e.kind = "drain" /\ e.closes = pendingCloses
    BY <1>1, <2>1 DEF Entry
  <2>6. owed' = owed /\ stack' = Becomes(e) /\ UNCHANGED marks
    BY <1>2, <2>1 DEF DrainTakes
  <2>7. Covered(owed', pendingCloses', e, owed, pendingCloses, Top)
    BY <1>1, <2>5, <2>6 DEF Covered, Answering
  <2>8. SoundNow'
    BY <1>1, <2>4, <2>6, <2>7, SoundIfBecomes
  <2>. QED BY <2>2, <2>8
<1>3. CASE DrainFlushes
  <2>1. PICK e : e = [Top EXCEPT !.dirty = FALSE]
    OBVIOUS
  <2>2. /\ Flush(Live) /\ owed' = owed \cup (closeFiles \cap Live)
        /\ stack' = Becomes(e)
        /\ UNCHANGED <<figures, current, marks, error, counts>>
    BY <1>3, <2>1 DEF DrainFlushes
  <2>3. Live \subseteq Handles
    BY DEF Typed
  <2>4. Typed'
    BY <2>2, <2>3, Flushed DEF Typed, Live, CurrentFigureIsLive, marks, counts
  <2>5. e \in Entry /\ SameActivity(e, Top)
    <3>1. Top.kind = "resized" => {} \subseteq Top.resizes
      OBVIOUS
    <3>. QED BY <1>1, <2>1, <3>1, Rests
  <2>6. pendingCloses' = pendingCloses \cup (closeFiles \cap Live)
    BY <2>2 DEF Flush
  <2>7. Covered(owed', pendingCloses', e, owed, pendingCloses, Top)
    BY <1>1, <2>2, <2>6 DEF Covered
  <2>8. SoundNow'
    BY <1>1, <2>2, <2>5, <2>7, SoundIfBecomes
  <2>. QED BY <2>4, <2>8
<1>4. CASE DrainEnds
  <2>1. Typed'
    BY <1>4 DEF DrainEnds, Typed, Live, CurrentFigureIsLive, queues, marks, counts
  <2>2. SoundNow'
    BY <1>1, <1>4, SoundIfPops DEF DrainEnds, queues, marks
  <2>. QED BY <2>1, <2>2
<1>. QED BY <1>2, <1>3, <1>4

LEMMA DrainClosesKeeps ==
  ASSUME IInv, DrainCloses
  PROVE  IInv'
<1>. USE DEF IInv
<1>1. /\ stack # << >> /\ Top.kind = "drain" /\ Top \in Entry
      /\ Top.role = "none" /\ Top.closes \in SUBSET Handles
      /\ Top.closes # {}
      /\ \A h : Answering(Top, h) <=> h \in Top.closes
  BY DrainIs DEF DrainCloses
<1>2. PICK h \in Top.closes : h = Least(Top.closes)
  BY <1>1, LeastExists
<1>3. PICK rest : rest = [Top EXCEPT !.closes = Top.closes \ {h}, !.dirty = TRUE]
  OBVIOUS
<1>4. /\ UNCHANGED <<queues, activeResizes, counts>>
      /\ \/ /\ error' = "gone"
            /\ UNCHANGED <<figures, current, activeCloses, stack, owed>>
         \/ /\ h \in Live /\ h \notin activeCloses
            /\ current' = h
            /\ activeCloses' = activeCloses \cup {h}
            /\ stack' = Calls(rest, Body("onClose", h))
            /\ UNCHANGED <<figures, error, owed>>
         \/ /\ h \in Live
            /\ figures' = Without({h}) /\ current' = CurrentWithout({h})
            /\ owed' = owed \ {h}
            /\ stack' = Becomes(rest)
            /\ UNCHANGED <<activeCloses, error>>
  BY <1>2, <1>3 DEF DrainCloses
<1>5. /\ rest \in Entry /\ SameActivity(rest, Top) /\ h \in Handles
      /\ rest.kind = "drain" /\ rest.closes = Top.closes \ {h}
  <2>1. Top.closes \ {h} \in SUBSET Handles
    BY <1>1
  <2>2. rest \in Entry /\ SameActivity(rest, Top)
    BY <1>1, <1>3, <2>1, Rests
  <2>. QED BY <1>1, <1>3, <2>2 DEF Entry
<1>6. CASE error' = "gone"
           /\ UNCHANGED <<figures, current, activeCloses, stack, owed>>
  <2>1. Typed'
    BY <1>4, <1>6 DEF Typed, Live, CurrentFigureIsLive, queues, counts
  <2>. QED BY <1>4, <1>6, <2>1 DEF SoundNow, queues
<1>7. CASE /\ h \in Live /\ h \notin activeCloses
           /\ current' = h
           /\ activeCloses' = activeCloses \cup {h}
           /\ stack' = Calls(rest, Body("onClose", h))
           /\ UNCHANGED <<figures, error, owed>>
  <2>1. Typed'
    BY <1>4, <1>5, <1>7 DEF Typed, Live, CurrentFigureIsLive, queues, counts
  <2>2. PICK f \in Entry : /\ f = Body("onClose", h) /\ f.figure = h
                           /\ f.role = "onClose" /\ f.kind = "body"
    BY <1>5, Bodies
  <2>3. \A j \in owed : Answering(Top, j) => Answering(rest, j) \/ Answering(f, j)
    BY <1>1, <1>5, <2>2 DEF Answering
  <2>4. SoundNow'
    BY <1>1, <1>4, <1>5, <1>7, <2>2, <2>3, SoundIfCalls DEF queues
  <2>. QED BY <2>1, <2>4
<1>8. CASE /\ h \in Live
           /\ figures' = Without({h}) /\ current' = CurrentWithout({h})
           /\ owed' = owed \ {h}
           /\ stack' = Becomes(rest)
           /\ UNCHANGED <<activeCloses, error>>
  <2>1. /\ Live' \subseteq Handles /\ figures' \in [Live' -> Callbacks]
        /\ current' \in Handles \cup {None} /\ CurrentFigureIsLive'
    BY <1>8, DeletedFigures
  <2>2. Typed'
    BY <1>4, <1>8, <2>1 DEF Typed, queues, counts
  <2>3. Covered(owed', pendingCloses', rest, owed, pendingCloses, Top)
    BY <1>1, <1>4, <1>5, <1>8 DEF Covered, Answering, queues
  <2>4. SoundNow'
    BY <1>1, <1>4, <1>5, <1>8, <2>3, SoundIfBecomes DEF marks
  <2>. QED BY <2>2, <2>4
<1>. QED BY <1>4, <1>6, <1>7, <1>8

LEMMA DrainResizesKeeps ==
  ASSUME IInv, DrainResizes
  PROVE  IInv'
<1>. USE DEF IInv
<1>1. /\ stack # << >> /\ Top.kind = "drain" /\ Top \in Entry
      /\ Top.role = "none" /\ Top.closes = {}
      /\ Top.resizes \in SUBSET Handles /\ Top.resizes # {}
      /\ \A h : Answering(Top, h) <=> h \in Top.closes
  BY DrainIs DEF DrainResizes
<1>2. PICK h \in Top.resizes : h = Least(Top.resizes)
  BY <1>1, LeastExists
<1>3. PICK rest, busy :
        /\ rest = [Top EXCEPT !.resizes = Top.resizes \ {h}]
        /\ busy = [Top EXCEPT !.resizes = Top.resizes \ {h}, !.dirty = TRUE]
  OBVIOUS
<1>4. /\ UNCHANGED <<figures, queues, activeCloses, error, owed, counts>>
      /\ \/ /\ h \in Live /\ h \notin activeResizes
            /\ current' = h
            /\ activeResizes' = activeResizes \cup {h}
            /\ stack' = Calls([rest EXCEPT !.dirty = TRUE], Body("onResize", h))
         \/ /\ stack' = Becomes(rest)
            /\ UNCHANGED <<current, activeResizes>>
  BY <1>2, <1>3 DEF DrainResizes
<1>5. /\ rest \in Entry /\ SameActivity(rest, Top)
      /\ busy \in Entry /\ SameActivity(busy, Top)
      /\ [rest EXCEPT !.dirty = TRUE] = busy
      /\ h \in Handles
  <2>1. /\ Top.resizes \ {h} \in SUBSET Handles
        /\ Top.resizes \ {h} \subseteq Top.resizes
    BY <1>1
  <2>2. rest \in Entry /\ SameActivity(rest, Top)
    BY <1>1, <1>3, <2>1, Rests
  <2>3. busy \in Entry /\ SameActivity(busy, Top)
    BY <1>1, <1>3, <2>1, Rests
  <2>4. [rest EXCEPT !.dirty = TRUE] = busy
    BY <1>1, <1>3 DEF Entry
  <2>. QED BY <1>1, <2>2, <2>3, <2>4
<1>6. CASE /\ h \in Live /\ h \notin activeResizes
           /\ current' = h
           /\ activeResizes' = activeResizes \cup {h}
           /\ stack' = Calls([rest EXCEPT !.dirty = TRUE], Body("onResize", h))
  <2>1. Typed'
    BY <1>4, <1>5, <1>6 DEF Typed, Live, CurrentFigureIsLive, queues, counts
  <2>2. PICK f \in Entry : /\ f = Body("onResize", h) /\ f.figure = h
                           /\ f.role = "onResize" /\ f.kind = "body"
    BY <1>5, Bodies
  <2>3. SoundNow'
    BY <1>1, <1>4, <1>5, <1>6, <2>2, SoundIfCalls DEF queues
  <2>. QED BY <2>1, <2>3
<1>7. CASE stack' = Becomes(rest) /\ UNCHANGED <<current, activeResizes>>
  <2>1. Typed'
    BY <1>4, <1>7 DEF Typed, Live, CurrentFigureIsLive, queues, counts
  <2>2. Covered(owed', pendingCloses', rest, owed, pendingCloses, Top)
    BY <1>1, <1>4 DEF Covered, queues
  <2>3. SoundNow'
    BY <1>1, <1>4, <1>5, <1>7, <2>2, SoundIfBecomes DEF marks
  <2>. QED BY <2>1, <2>3
<1>. QED BY <1>4, <1>6, <1>7

LEMMA ErrorsKeep ==
  ASSUME IInv, Unwind \/ Caught
  PROVE  IInv'
<1>. USE DEF IInv
<1>1. stack # << >> /\ Top \in Entry /\ (Top.role # "none" => Top.kind = "body")
  BY TopIs DEF Unwind, Caught, Failing
<1>2. CASE Unwind
  <2>1. /\ stack' = Pop
        /\ UNCHANGED <<figures, current, queues, error, counts>>
        /\ activeCloses' = IF Top.role = "onClose"
                           THEN activeCloses \ {Top.figure} ELSE activeCloses
        /\ activeResizes' = IF Top.role = "onResize"
                            THEN activeResizes \ {Top.figure} ELSE activeResizes
        /\ owed' \subseteq owed
        /\ \A h \in owed' : ~Answering(Top, h)
    <3>1. CASE Top.kind = "drain"
      BY <1>1, <1>2, <3>1 DEF Unwind, marks, Answering
    <3>2. CASE Top.kind # "drain"
      BY <1>1, <1>2, <3>2 DEF Unwind, Unmarked, Answering
    <3>. QED BY <3>1, <3>2
  <2>2. Typed'
    BY <2>1 DEF Typed, Live, CurrentFigureIsLive, queues, counts
  <2>3. SoundNow'
    BY <1>1, <2>1, SoundIfPops DEF queues
  <2>. QED BY <2>2, <2>3
<1>3. CASE Caught
  <2>1. PICK e : e = [Top EXCEPT !.dirty = TRUE]
    OBVIOUS
  <2>2. /\ stack' = Becomes(e) /\ Top.kind = "body"
        /\ UNCHANGED <<figures, current, queues, marks, owed, counts>>
    BY <1>3, <2>1 DEF Caught, Busy
  <2>3. Typed'
    BY <1>3, <2>2
    DEF Caught, Typed, Live, CurrentFigureIsLive, queues, marks, counts
  <2>4. e \in Entry /\ SameActivity(e, Top)
    BY <1>1, <2>1 DEF Entry, SameActivity
  <2>5. \A h : Answering(Top, h) => Answering(e, h)
    BY <1>1, <2>1 DEF Entry, Answering
  <2>6. Covered(owed', pendingCloses', e, owed, pendingCloses, Top)
    BY <2>2, <2>5 DEF Covered, queues
  <2>7. SoundNow'
    BY <1>1, <2>2, <2>4, <2>6, SoundIfBecomes
  <2>. QED BY <2>3, <2>7
<1>. QED BY <1>2, <1>3

LEMMA StepKeeps == IInv /\ [Next]_vars => IInv'
<1>. SUFFICES ASSUME IInv, [Next]_vars PROVE IInv'
  OBVIOUS
<1>1. CASE CallBuiltin
  BY <1>1, CallsKeep, DeletesKeep, BodiesKeep DEF CallBuiltin
<1>2. CASE Engine
  BY <1>2, BodiesKeep, BuiltinsKeep, QueuesKeep, DrainClosesKeeps,
     DrainResizesKeeps, ErrorsKeep DEF Engine
<1>3. CASE ProgramEnds \/ UserEvent
  BY <1>3, BodiesKeep
<1>4. CASE UNCHANGED vars
  BY <1>4 DEF vars, queues, marks, counts, IInv, Typed, SoundNow, Live,
              CurrentFigureIsLive
<1>. QED BY <1>1, <1>2, <1>3, <1>4 DEF Next

-----------------------------------------------------------------------------
(* Theorems *)

THEOREM Invariance == Spec => []IInv
<1>1. Init => IInv
  BY InitHolds
<1>2. IInv /\ [Next]_vars => IInv'
  BY StepKeeps
<1>. QED BY <1>1, <1>2, PTL DEF Spec

\* The state of the figures and of the engine keeps its types.
THEOREM EventsTypeCorrect == Spec => []TypeOK
BY Invariance, InvImplies, PTL

\* A figure is marked as being closed or resized exactly while a drain, or the
\* builtin that moved it, runs its callback; such a callback is not entered
\* again by either; and where two callbacks that answer closes of one figure
\* nest, close has entered one of them, which no mark shows.
THEOREM MarksStayMatched == Spec => []MarksMatchStack
BY Invariance, InvImplies, PTL

\* A close event that was taken in is never dropped but by an error that ends
\* the drain that has taken it.
THEOREM ClosesStayOwed == Spec => []ClosesAreKept
BY Invariance, InvImplies, PTL

\* current_figure always names a figure there is.
THEOREM CurrentStaysLive == Spec => []CurrentFigureIsLive
BY Invariance, InvImplies, PTL
=============================================================================
