-------------------------- MODULE FigureHostProofs --------------------------
(***************************************************************************)
(* Proofs about the figure host, for any number of figures and flushes.    *)
(*                                                                         *)
(*   HostTypeCorrect   the type invariant                                  *)
(*   ClosedStaysClosed it implements FigureViewer, whatever fails and      *)
(*                     however the clock jumps, if no figure is docked     *)
(*   ClosesAreReported, PagesStayCurrent, BrowserOnlyWithoutHost           *)
(*                     the other invariants, if only reports can fail      *)
(***************************************************************************)
EXTENDS FigureHost, TLAPS

-----------------------------------------------------------------------------
(* Types *)

\* TypeOK is inductive once the Dock window is known to keep no position: the
\* event files of positions are named after figures.
Typed ==
  /\ TypeOK
  /\ \A k \in Open : windows[k].moved => k \in Handles

LEMMA ConstantsTyped ==
  /\ Versions \subseteq Nat /\ 0 \in Versions
  /\ \A h \in Handles : h \in Nat /\ h # Dock
  /\ None \notin Keys
  /\ MaxMisses \in Nat /\ MaxFlushes \in Nat
BY HandlesAssumption, BoundsAssumption DEF Versions, Dock, None, Keys

\* What a turn leaves of the windows its poll came to.
LEMMA EndTurnKeeps ==
  ASSUME Typed,
         NEW ws, ws \in [DOMAIN ws -> Window],
         \A k \in DOMAIN ws : ws[k].moved => k \in Handles,
         NEW result, EndTurn(ws, result)
  PROVE  /\ windows' \in [DOMAIN ws -> Window]
         /\ \A k \in DOMAIN ws : /\ windows'[k].managed = ws[k].managed
                                 /\ windows'[k].moved => k \in Handles
         /\ positionFiles' \subseteq Handles
         /\ readySent' \in BOOLEAN
         /\ status' \in {"starting", "ready", "error"}
         /\ running' \in BOOLEAN
<1>1. PICK due \in SUBSET {k \in DOMAIN ws : ws[k].moved}, broken \in BOOLEAN :
        /\ windows' = [k \in DOMAIN ws |->
                         [ws[k] EXCEPT !.moved = @ /\ k \notin due]]
        /\ positionFiles' = positionFiles \cup due
        /\ Report(result = "polled" /\ DOMAIN ws # {},
                  result = "error" \/ broken)
        /\ running' = ~ShouldExit'
  BY DEF EndTurn, PositionsWritten
<1>2. ASSUME NEW k \in DOMAIN ws
      PROVE  /\ windows'[k] \in Window
             /\ windows'[k].managed = ws[k].managed
             /\ windows'[k].moved => k \in Handles
  <2>1. ws[k] \in Window
    OBVIOUS
  <2>2. windows'[k] = [ws[k] EXCEPT !.moved = @ /\ k \notin due]
    BY <1>1
  <2>3. QED BY <2>1, <2>2 DEF Window
<1>3. windows' \in [DOMAIN ws -> Window]
  BY <1>1, <1>2
<1>4. running' \in BOOLEAN
  BY <1>1 DEF ShouldExit
<1>5. /\ readySent' \in BOOLEAN
      /\ status' \in {"starting", "ready", "error"}
  BY <1>1 DEF Report, Typed, TypeOK
<1>6. QED BY <1>1, <1>2, <1>3, <1>4, <1>5 DEF Typed, TypeOK

LEMMA TypedInit == Init => Typed
<1> SUFFICES ASSUME Init PROVE Typed
  OBVIOUS
<1>1. PICK s \in [Handles -> Styles] :
        manifest \in {NoManifest, [revision |-> 1, version |-> 1, style |-> s]}
  BY DEF Init
<1>2. s \in [Handles -> {"hidden", "normal", "docked"}]
  BY StylesAssumption
<1>3. 1 \in Versions /\ 0 \in Versions
  BY BoundsAssumption DEF Versions
<1>4. manifest \in Manifests
  BY <1>1, <1>2, <1>3 DEF Manifests, NoManifest
<1>5. pages \in Versions
  BY <1>4 DEF Init, Manifests
<1>6. Open = {}
  BY DEF Init, Open
<1>7. figures \in [Handles -> {"hidden", "normal", "docked"}]
  BY DEF Init, NoManifest
<1>8. misses \in 0 .. MaxMisses + 1
  BY BoundsAssumption DEF Init
<1>9. windows \in [Open -> Window]
  BY DEF Init, Open
<1>10. QED BY <1>3, <1>4, <1>5, <1>6, <1>7, <1>8, <1>9 DEF Init, Typed, TypeOK

LEMMA SynchronizedTyped ==
  ASSUME Typed, NEW style \in [Handles -> {"hidden", "normal", "docked"}],
         NEW done \in SUBSET Keys, NEW broken, NEW changed \in BOOLEAN
  PROVE  LET ws == Synchronized(style, done, broken, changed)
         IN /\ DOMAIN ws = (Open \cap Wanted(style)) \cup done
            /\ DOMAIN ws \subseteq Keys
            /\ ws \in [DOMAIN ws -> Window]
            /\ \A k \in DOMAIN ws : ws[k].moved => k \in Handles
<1> DEFINE ws == Synchronized(style, done, broken, changed)
           D  == (Open \cap Wanted(style)) \cup done
<1>1. DOMAIN ws = D /\ D \subseteq Keys
  BY DEF Synchronized, Typed, TypeOK
<1>2. ASSUME NEW k \in D
      PROVE  ws[k] \in Window /\ (ws[k].moved => k \in Handles)
  <2>1. ManagedBy(style, k) \in SUBSET Handles
    BY <1>1 DEF ManagedBy, Docked, Keys
  <2>2. pages \in Versions
    BY DEF Typed, TypeOK
  <2>3. CASE k \notin Open
    <3>1. ws[k] = [managed |-> ManagedBy(style, k), page |-> pages,
                   moved |-> FALSE]
      BY <2>3 DEF Synchronized
    <3>2. QED BY <3>1, <2>1, <2>2 DEF Window
  <2>4. CASE k \in Open
    <3>1. windows[k] \in Window /\ (windows[k].moved => k \in Handles)
      BY <2>4 DEF Typed, TypeOK
    <3>2. ws[k] = [managed |-> IF k \in done \cup {broken}
                               THEN ManagedBy(style, k) ELSE windows[k].managed,
                   page    |-> IF k \in done /\ changed
                               THEN pages ELSE windows[k].page,
                   moved   |-> windows[k].moved]
      BY <2>4 DEF Synchronized
    <3>3. QED BY <3>1, <3>2, <2>1, <2>2 DEF Window
  <2>5. QED BY <2>3, <2>4
<1>3. ws \in [D -> Window]
  BY <1>1, <1>2 DEF Synchronized
<1>4. QED BY <1>1, <1>2, <1>3

\* A poll ends with the windows it synchronized, whatever breaks.
LEMMA PollTyped == Typed /\ Poll => Typed'
<1> SUFFICES ASSUME Typed, Poll PROVE Typed'
  OBVIOUS
<1> DEFINE revision == manifest.revision
           style    == manifest.style
           changed  == lastRevision # revision
           gone     == Open \ Wanted(style)
           closed   == [h \in Handles |->
                          IF h \in gone THEN 0
                          ELSE Retain(closedAt, revision)[h]]
           failed   == Retain(failedAt, revision)
           due      == Due(style, closed, failed, revision)
<1>1. /\ style \in [Handles -> {"hidden", "normal", "docked"}]
      /\ revision \in Versions
      /\ changed \in BOOLEAN
  BY DEF Typed, TypeOK, Manifests
<1>2. due \subseteq Keys
  BY DEF Due, Wanted, Normal, Keys
<1>3. /\ closed \in [Handles -> Versions]
      /\ failed \in [Keys -> Versions]
  BY ConstantsTyped DEF Typed, TypeOK, Retain
<1>4. PICK broken \in {None} \cup {k \in due : MayBreak(k, changed)} :
        LET done == IF broken = None THEN due
                    ELSE {k \in due : Before(k, broken)}
        IN /\ failedAt' =
                [k \in Keys |->
                   IF k = broken /\ k \notin Open THEN revision
                   ELSE IF \/ k \in done
                           \/ k = Dock /\ broken = None /\ Docked(style) = {}
                   THEN 0
                   ELSE failed[k]]
           /\ misses' = 0
           /\ lastRevision' = revision
           /\ figures' = style
           /\ closedAt' = closed
           /\ dismissed' = IF revision > lastRevision THEN {} ELSE dismissed
           /\ EndTurn(Synchronized(style, done, broken, changed),
                      IF broken = None THEN "polled" ELSE "error")
  BY DEF Poll
<1> DEFINE done == IF broken = None THEN due
                   ELSE {k \in due : Before(k, broken)}
           ws   == Synchronized(style, done, broken, changed)
           result == IF broken = None THEN "polled" ELSE "error"
<1>5. done \in SUBSET Keys
  BY <1>2
<1>6. failedAt' \in [Keys -> Versions]
  BY <1>1, <1>3, <1>4, ConstantsTyped
<1>7. EndTurn(ws, result)
  BY <1>4
<1>8. /\ DOMAIN ws \subseteq Keys
      /\ ws \in [DOMAIN ws -> Window]
      /\ \A k \in DOMAIN ws : ws[k].moved => k \in Handles
  <2> HIDE DEF style, done, changed
  <2>1. QED BY <1>1, <1>5, SynchronizedTyped
<1> HIDE DEF ws, result, done, closed, failed, due, style, revision, changed
<1>9. /\ windows' \in [DOMAIN ws -> Window]
      /\ \A k \in DOMAIN ws : windows'[k].moved => k \in Handles
      /\ positionFiles' \subseteq Handles
      /\ readySent' \in BOOLEAN
      /\ status' \in {"starting", "ready", "error"}
      /\ running' \in BOOLEAN
  BY <1>7, <1>8, EndTurnKeeps
<1>10. Open' = DOMAIN ws
  BY <1>9 DEF Open
<1>11. /\ lastRevision' \in Versions
       /\ figures' \in [Handles -> {"hidden", "normal", "docked"}]
       /\ closedAt' \in [Handles -> Versions]
       /\ misses' = 0
       /\ dismissed' \subseteq Handles
  BY <1>1, <1>3, <1>4 DEF Typed, TypeOK
<1>12. misses' \in 0 .. MaxMisses + 1
  BY <1>11, ConstantsTyped
<1>13. UNCHANGED <<session, closeFiles, launcher>>
  BY DEF Poll
<1>14. QED
  BY <1>6, <1>8, <1>9, <1>10, <1>11, <1>12, <1>13 DEF Typed, TypeOK, session

\* A turn that read no manifest leaves the windows it found.
LEMMA IdleTurnKeeps ==
  ASSUME Typed, NEW result, EndTurn(windows, result)
  PROVE  /\ windows' \in [Open -> Window]
         /\ Open' = Open
         /\ \A k \in Open : /\ windows'[k].managed = windows[k].managed
                            /\ windows'[k].moved => k \in Handles
         /\ positionFiles' \subseteq Handles
         /\ readySent' \in BOOLEAN
         /\ status' \in {"starting", "ready", "error"}
         /\ running' \in BOOLEAN
<1>1. /\ windows \in [DOMAIN windows -> Window]
      /\ \A k \in DOMAIN windows : windows[k].moved => k \in Handles
  BY DEF Typed, TypeOK, Open
<1>2. QED
  BY <1>1, EndTurnKeeps DEF Open

\* Every step keeps the types.
LEMMA TypedStep == Typed /\ [Next]_vars => Typed'
<1> SUFFICES ASSUME Typed, [Next]_vars PROVE Typed'
  OBVIOUS
<1> USE DEF Typed, TypeOK, session, host, Open
<1>1. CASE BeginFlush
  <2>1. pages' \in Versions
    BY <1>1, ConstantsTyped DEF BeginFlush, Versions
  <2>2. QED BY <1>1, <2>1 DEF BeginFlush
<1>2. CASE EndFlush
  <2>1. PICK s \in [Handles -> Styles], r \in 1 .. MaxFlushes :
          manifest' = [revision |-> r, version |-> pages, style |-> s]
    BY <1>2 DEF EndFlush
  <2>2. s \in [Handles -> {"hidden", "normal", "docked"}] /\ r \in Versions
    BY StylesAssumption, ConstantsTyped DEF Versions
  <2>3. manifest' \in Manifests
    BY <2>1, <2>2 DEF Manifests
  <2>4. QED BY <1>2, <2>3 DEF EndFlush
<1>3. CASE AbandonFlush
  BY <1>3 DEF AbandonFlush
<1>4. CASE PollMiss
  <2>1. misses' \in 0 .. MaxMisses + 1
    BY <1>4, ConstantsTyped DEF PollMiss
  <2>2. EndTurn(windows, "missed")
    BY <1>4 DEF PollMiss
  <2>3. QED
    BY <1>4, <2>1, <2>2, IdleTurnKeeps DEF PollMiss
<1>5. CASE PollTorn
  <2>1. EndTurn(windows, "error")
    BY <1>5 DEF PollTorn
  <2>2. QED
    BY <1>5, <2>1, IdleTurnKeeps DEF PollTorn
<1>6. CASE Poll
  BY <1>6, PollTyped
<1>7. ASSUME NEW k \in Keys, CloseRequested(k) PROVE Typed'
  <2>1. PICK told \in SUBSET windows[k].managed :
          /\ closeFiles' = closeFiles \cup told
          /\ closedAt' = [h \in Handles |->
                            IF h \in told THEN lastRevision ELSE closedAt[h]]
          /\ dismissed' = dismissed \cup told
          /\ windows' = IF told = windows[k].managed
                        THEN [j \in Open \ {k} |-> windows[j]] ELSE windows
          /\ status' = IF told # windows[k].managed /\ ~readySent THEN "error"
                       ELSE status
    BY <1>7 DEF CloseRequested
  <2>2. k \in Open /\ windows[k] \in Window
    BY <1>7 DEF CloseRequested
  <2>3. told \subseteq Handles
    BY <2>1, <2>2 DEF Window
  <2>4. /\ Open' \subseteq Keys
        /\ windows' \in [Open' -> Window]
        /\ \A j \in Open' : windows'[j].moved => j \in Handles
    BY <2>1
  <2>5. QED
    BY <1>7, <2>1, <2>3, <2>4 DEF CloseRequested
<1>8. ASSUME NEW k \in Keys, Moved(k) PROVE Typed'
  <2>1. /\ k \in Open /\ k \in Handles
        /\ windows' = [windows EXCEPT ![k].moved = TRUE]
    BY <1>8 DEF Moved, Keys
  <2>2. windows' \in [Open -> Window]
    BY <2>1 DEF Window
  <2>3. \A j \in Open : windows'[j].moved => j \in Handles
    BY <2>1
  <2>4. QED
    BY <1>8, <2>2, <2>3 DEF Moved
<1>9. CASE LauncherLooks
  BY <1>9 DEF LauncherLooks
<1>10. CASE LauncherTimesOut
  BY <1>10 DEF LauncherTimesOut
<1>11. CASE UNCHANGED vars
  BY <1>11 DEF vars
<1>12. QED
  BY <1>1, <1>2, <1>3, <1>4, <1>5, <1>6, <1>7, <1>8, <1>9, <1>10, <1>11 DEF Next

\* The host's data keep their types: TypeOK, for any figures and flushes.
THEOREM HostTypeCorrect == Spec => []TypeOK
<1>1. Spec => []Typed
  BY TypedInit, TypedStep, PTL DEF Spec
<1>2. Typed => TypeOK
  BY DEF Typed
<1>3. QED BY <1>1, <1>2, PTL

-----------------------------------------------------------------------------
(* The host implements FigureViewer where no figure is docked *)

NoneDocked == "docked" \notin Styles

\* Every window shows one figure, and a figure the user dismissed has no window
\* and an entry that keeps it away at the revision last read.
Undocked ==
  /\ \A h \in Handles : manifest.style[h] # "docked"
  /\ \A k \in Open : k \in Handles /\ windows[k].managed = {k}
  /\ \A h \in dismissed : h \notin Open /\ closedAt[h] >= lastRevision

HInv == Typed /\ Undocked

LEMMA ShownIsOpen == (\A k \in Open : windows[k].managed = {k}) => Shown = Open
BY DEF Shown

LEMMA ShownIsOpenNext ==
  (\A k \in Open' : windows'[k].managed = {k}) => Shown' = Open'
BY DEF Shown, Open

LEMMA UndockedInit == NoneDocked /\ Init => Undocked
<1> SUFFICES ASSUME NoneDocked, Init PROVE Undocked
  OBVIOUS
<1>1. PICK s \in [Handles -> Styles] :
        manifest \in {NoManifest, [revision |-> 1, version |-> 1, style |-> s]}
  BY DEF Init
<1>2. \A h \in Handles : manifest.style[h] # "docked"
  BY <1>1 DEF NoneDocked, NoManifest
<1>3. QED BY <1>2 DEF Init, Undocked, Open

\* What a poll does to the windows, when none shows docked figures: it opens
\* none that is to stay closed.
LEMMA PollHonours ==
  ASSUME HInv, Poll
  PROVE  /\ Undocked'
         /\ lastRevision' = manifest.revision
         /\ lastRevision' # 0
         /\ dismissed' = IF lastRevision' > lastRevision THEN {} ELSE dismissed
<1> DEFINE revision == manifest.revision
           style    == manifest.style
           changed  == lastRevision # revision
           gone     == Open \ Wanted(style)
           closed   == [h \in Handles |->
                          IF h \in gone THEN 0
                          ELSE Retain(closedAt, revision)[h]]
           failed   == Retain(failedAt, revision)
           due      == Due(style, closed, failed, revision)
<1>1. PICK broken \in {None} \cup {k \in due : MayBreak(k, changed)} :
        LET done == IF broken = None THEN due
                    ELSE {k \in due : Before(k, broken)}
        IN /\ lastRevision' = revision
           /\ closedAt' = closed
           /\ dismissed' = IF revision > lastRevision THEN {} ELSE dismissed
           /\ EndTurn(Synchronized(style, done, broken, changed),
                      IF broken = None THEN "polled" ELSE "error")
  BY DEF Poll
<1> DEFINE done == IF broken = None THEN due
                   ELSE {k \in due : Before(k, broken)}
           ws   == Synchronized(style, done, broken, changed)
           result == IF broken = None THEN "polled" ELSE "error"
<1>2. /\ style \in [Handles -> {"hidden", "normal", "docked"}]
      /\ revision \in Nat /\ revision # 0 /\ lastRevision \in Nat
      /\ changed \in BOOLEAN
  BY ConstantsTyped DEF HInv, Typed, TypeOK, Manifests, Poll
<1>3. Wanted(style) \subseteq Handles
  BY DEF Wanted, Normal, Docked, HInv, Undocked
<1>4. due \subseteq Handles /\ \A k \in due : ~ (closed[k] >= revision)
  BY <1>3 DEF Due, Suppressed
<1>5. done \subseteq due
  OBVIOUS
<1>6. /\ DOMAIN ws = (Open \cap Wanted(style)) \cup done
      /\ ws \in [DOMAIN ws -> Window]
      /\ \A k \in DOMAIN ws : ws[k].moved => k \in Handles
  <2>1. done \in SUBSET Keys
    BY <1>4, <1>5 DEF Keys
  <2> HIDE DEF style, done, changed
  <2>2. QED BY <1>2, <2>1, SynchronizedTyped DEF HInv
<1>7. ASSUME NEW k \in DOMAIN ws PROVE ws[k].managed = {k}
  <2>1. k \in Handles /\ k # Dock
    BY <1>3, <1>4, <1>5, <1>6, ConstantsTyped
  <2>2. ManagedBy(style, k) = {k}
    BY <2>1 DEF ManagedBy
  <2>3. k \in Open => windows[k].managed = {k}
    BY DEF HInv, Undocked
  <2>4. ws[k].managed = IF k \notin Open THEN ManagedBy(style, k)
                        ELSE IF k \in done \cup {broken}
                             THEN ManagedBy(style, k)
                        ELSE windows[k].managed
    BY <1>6 DEF Synchronized
  <2>5. QED BY <2>2, <2>3, <2>4
<1>8. EndTurn(ws, result)
  BY <1>1
<1>9. /\ Open' = DOMAIN ws
      /\ \A k \in Open' : windows'[k].managed = {k}
  <2> HIDE DEF ws, result
  <2>1. /\ windows' \in [DOMAIN ws -> Window]
        /\ \A k \in DOMAIN ws : windows'[k].managed = ws[k].managed
    BY <1>6, <1>8, EndTurnKeeps DEF HInv
  <2>2. QED BY <1>7, <2>1 DEF Open
<1>10. ASSUME NEW h \in dismissed'
       PROVE  h \notin Open' /\ closedAt'[h] >= lastRevision'
  <2>1. h \in dismissed /\ ~ (revision > lastRevision)
    BY <1>1
  <2>2. h \in Handles /\ h \notin Open /\ closedAt[h] >= lastRevision
    BY <2>1 DEF HInv, Undocked, Typed, TypeOK
  <2>3. closedAt \in [Handles -> Nat]
    BY ConstantsTyped DEF HInv, Typed, TypeOK
  <2>4. closedAt[h] >= revision
    BY <1>2, <2>1, <2>2, <2>3
  <2>5. closed[h] = closedAt[h]
    BY <2>2, <2>3, <2>4 DEF Retain
  <2>6. h \notin due
    BY <1>4, <2>4, <2>5
  <2>7. QED
    BY <1>1, <1>5, <1>6, <1>9, <2>2, <2>4, <2>5, <2>6
<1>11. Open' \subseteq Handles
  BY <1>3, <1>4, <1>5, <1>6, <1>9
<1>12. manifest' = manifest
  BY DEF Poll, session
<1>13. QED
  BY <1>1, <1>2, <1>9, <1>10, <1>11, <1>12 DEF HInv, Undocked

\* Every step keeps Undocked and is a step of the viewer, or none.
LEMMA StepHonours ==
  ASSUME NoneDocked, HInv, Typed', [Next]_vars
  PROVE  Undocked' /\ [Viewer!Next]_(Viewer!vars)
<1>0. Shown = Open
  BY ShownIsOpen DEF HInv, Undocked
<1> DEFINE Same == /\ Open' = Open
                   /\ \A k \in Open : windows'[k].managed = windows[k].managed
                   /\ UNCHANGED <<lastRevision, closedAt, dismissed>>
                   /\ \A h \in Handles : manifest'.style[h] # "docked"
<1>1. ASSUME Same PROVE Undocked' /\ [Viewer!Next]_(Viewer!vars)
  <2>1. Undocked'
    BY <1>1 DEF HInv, Undocked
  <2>2. Shown' = Open'
    BY <2>1, ShownIsOpenNext DEF Undocked
  <2>3. UNCHANGED Viewer!vars
    BY <1>0, <1>1, <2>2 DEF Viewer!vars
  <2>4. QED BY <2>1, <2>3
<1>2. ASSUME UNCHANGED <<manifest, host>>
      PROVE  Undocked' /\ [Viewer!Next]_(Viewer!vars)
  BY <1>1, <1>2 DEF host, Open, HInv, Undocked
<1>3. CASE BeginFlush
  BY <1>2, <1>3 DEF BeginFlush
<1>4. CASE EndFlush
  <2>1. PICK s \in [Handles -> Styles], r \in 1 .. MaxFlushes :
          manifest' = [revision |-> r, version |-> pages, style |-> s]
    BY <1>4 DEF EndFlush
  <2>2. Same
    BY <1>4, <2>1 DEF EndFlush, host, Open, NoneDocked
  <2>3. QED BY <1>1, <2>2
<1>5. CASE AbandonFlush
  BY <1>2, <1>5 DEF AbandonFlush
<1>6. CASE PollMiss
  <2>1. EndTurn(windows, "missed")
    BY <1>6 DEF PollMiss
  <2>2. Same
    BY <1>6, <2>1, IdleTurnKeeps DEF PollMiss, session, HInv, Undocked
  <2>3. QED BY <1>1, <2>2
<1>7. CASE PollTorn
  <2>1. EndTurn(windows, "error")
    BY <1>7 DEF PollTorn
  <2>2. Same
    BY <1>7, <2>1, IdleTurnKeeps DEF PollTorn, session, HInv, Undocked
  <2>3. QED BY <1>1, <2>2
<1>8. CASE Poll
  <2>1. /\ Undocked'
        /\ lastRevision' = manifest.revision
        /\ lastRevision' # 0
        /\ dismissed' = IF lastRevision' > lastRevision THEN {} ELSE dismissed
    BY <1>8, PollHonours
  <2>2. Shown' = Open'
    BY <2>1, ShownIsOpenNext DEF Undocked
  <2>3. Shown' \in SUBSET (Handles \ dismissed')
    BY <2>1, <2>2 DEF Undocked
  <2>4. lastRevision \in Nat /\ lastRevision' \in Nat
    BY ConstantsTyped DEF HInv, Typed, TypeOK
  <2>5. CASE lastRevision' = lastRevision
    BY <2>1, <2>3, <2>4, <2>5 DEF Viewer!Next, Viewer!Refresh
  <2>6. CASE lastRevision' # lastRevision
    BY <2>1, <2>3, <2>4, <2>6 DEF Viewer!Next, Viewer!Advance
  <2>7. QED BY <2>1, <2>5, <2>6
<1>9. ASSUME NEW k \in Keys, CloseRequested(k)
      PROVE  Undocked' /\ [Viewer!Next]_(Viewer!vars)
  <2>1. k \in Open /\ k \in Handles /\ windows[k].managed = {k}
    BY <1>9 DEF CloseRequested, HInv, Undocked
  <2>2. PICK told \in SUBSET {k} :
          /\ closedAt' = [h \in Handles |->
                            IF h \in told THEN lastRevision ELSE closedAt[h]]
          /\ dismissed' = dismissed \cup told
          /\ windows' = IF told = {k}
                        THEN [j \in Open \ {k} |-> windows[j]] ELSE windows
    BY <1>9, <2>1 DEF CloseRequested
  <2>3. UNCHANGED <<manifest, lastRevision>>
    BY <1>9 DEF CloseRequested, session
  <2>4. CASE told = {}
    <3>1. closedAt' = closedAt
      BY <2>2, <2>4 DEF HInv, Typed, TypeOK
    <3>2. Same
      BY <2>2, <2>3, <2>4, <3>1 DEF Open, HInv, Undocked
    <3>3. QED BY <1>1, <3>2
  <2>5. CASE told = {k}
    <3>1. Open' = Open \ {k} /\ \A j \in Open' : windows'[j] = windows[j]
      BY <2>2, <2>5 DEF Open
    <3>2. lastRevision \in Nat
      BY ConstantsTyped DEF HInv, Typed, TypeOK
    <3>3. \A h \in dismissed' : h \notin Open' /\ closedAt'[h] >= lastRevision'
      BY <2>1, <2>2, <2>3, <2>5, <3>1, <3>2 DEF HInv, Undocked, Typed, TypeOK
    <3>4. Undocked'
      BY <2>3, <3>1, <3>3 DEF HInv, Undocked
    <3>5. Shown' = Open'
      BY <3>4, ShownIsOpenNext DEF Undocked
    <3>6. Viewer!Dismiss
      <4>1. {k} \in (SUBSET Shown) \ {{}}
        BY <1>0, <2>1
      <4>2. Shown' = Shown \ {k}
        BY <1>0, <3>1, <3>5
      <4>3. QED BY <2>2, <2>3, <2>5, <4>1, <4>2 DEF Viewer!Dismiss
    <3>7. QED BY <3>4, <3>6 DEF Viewer!Next
  <2>6. QED BY <2>4, <2>5
<1>10. ASSUME NEW k \in Keys, Moved(k)
       PROVE  Undocked' /\ [Viewer!Next]_(Viewer!vars)
  <2>1. k \in Open /\ windows' = [windows EXCEPT ![k].moved = TRUE]
    BY <1>10 DEF Moved
  <2>2. \A j \in Open : windows[j] \in Window
    BY DEF HInv, Typed, TypeOK
  <2>3. Open' = Open /\ \A j \in Open : windows'[j].managed = windows[j].managed
    BY <2>1, <2>2 DEF Open, Window
  <2>4. Same
    BY <1>10, <2>3 DEF Moved, session, HInv, Undocked
  <2>5. QED BY <1>1, <2>4
<1>11. CASE LauncherLooks
  BY <1>2, <1>11 DEF LauncherLooks, session
<1>12. CASE LauncherTimesOut
  BY <1>2, <1>12 DEF LauncherTimesOut, session
<1>13. CASE UNCHANGED vars
  BY <1>2, <1>13 DEF vars, session
<1>14. QED
  BY <1>3, <1>4, <1>5, <1>6, <1>7, <1>8, <1>9, <1>10, <1>11, <1>12, <1>13
  DEF Next

\* Where no figure is docked the host implements FigureViewer: a figure the
\* user closed stays closed until the revision advances, for any number of
\* figures, whatever fails, and also when the clock stands still or goes back.
THEOREM ClosedStaysClosed == NoneDocked => (Spec => HonoursCloses)
<1> SUFFICES ASSUME NoneDocked PROVE Spec => HonoursCloses
  OBVIOUS
<1>1. Init => HInv
  BY TypedInit, UndockedInit DEF HInv
<1>2. HInv /\ [Next]_vars => HInv' /\ [Viewer!Next]_(Viewer!vars)
  BY TypedStep, StepHonours DEF HInv
<1>3. Init => Viewer!Init
  BY DEF Init, Viewer!Init, Shown, Open
<1>4. QED
  BY <1>1, <1>2, <1>3, PTL DEF Spec, HonoursCloses, Viewer!Spec

-----------------------------------------------------------------------------
(* Where only reports can fail and the clock advances: what the host hides is *)
(* reported, what it shows is current, and the launcher is right about it.    *)

Reliable == ClockAdvances /\ Failures \subseteq {"write"}

\* Nothing is noted under a revision that was not read, nothing is read that
\* was not published, and pages are written before they are published.
Noted ==
  /\ lastRevision <= manifest.revision
  /\ \A h \in Handles : closedAt[h] <= lastRevision
  /\ \A k \in Keys : failedAt[k] <= lastRevision
  /\ manifest.version <= pages

\* Before the program flushes again nothing can go wrong before the host is
\* ready, and it is ready as soon as it shows a window.
Ready ==
  quiet => /\ ~flushing
           /\ status # "error"
           /\ Open # {} => readySent

LInv == Typed /\ Noted /\ ClosedFiguresAreReported /\ WindowsAreCurrent
          /\ Ready /\ BrowserReplacesHost

LEMMA NumbersTyped ==
  ASSUME Typed
  PROVE  /\ manifest.revision \in Nat /\ manifest.version \in Nat
         /\ pages \in Nat /\ lastRevision \in Nat
         /\ \A h \in Handles : closedAt[h] \in Nat
         /\ \A k \in Keys : failedAt[k] \in Nat
         /\ \A k \in Open : windows[k].page \in Nat
BY ConstantsTyped DEF Typed, TypeOK, Manifests, Window

LEMMA LInvInit == Init => LInv
<1> SUFFICES ASSUME Init PROVE LInv
  OBVIOUS
<1>1. Typed
  BY TypedInit
<1>2. PICK s \in [Handles -> Styles] :
        manifest \in {NoManifest, [revision |-> 1, version |-> 1, style |-> s]}
  BY DEF Init
<1>3. manifest.revision \in {0, 1} /\ manifest.version = pages /\ pages \in {0, 1}
  BY <1>2 DEF NoManifest, Init
<1>4. Open = {}
  BY DEF Init, Open
<1>5. QED
  BY <1>1, <1>3, <1>4 DEF Init, LInv, Noted, ClosedFiguresAreReported,
     WindowsAreCurrent, Ready, BrowserReplacesHost

\* A turn whose poll left the windows ws reports no error before the host is
\* ready, and leaves the pages that are shown.
LEMMA EndTurnReports ==
  ASSUME NEW ws, ws \in [DOMAIN ws -> Window],
         NEW result, EndTurn(ws, result)
  PROVE  /\ DOMAIN windows' = DOMAIN ws
         /\ \A k \in DOMAIN ws : windows'[k].page = ws[k].page
         /\ readySent => readySent'
         /\ result = "polled" /\ DOMAIN ws # {} => readySent'
         /\ \/ status' \in {status, "ready"}
            \/ ~readySent /\ result = "error"
            \/ ~readySent /\ DOMAIN ws # {} /\ result # "polled"
<1>1. PICK due \in SUBSET {k \in DOMAIN ws : ws[k].moved}, broken \in BOOLEAN :
        /\ broken => \E k \in DOMAIN ws \ due : ws[k].moved
        /\ windows' = [k \in DOMAIN ws |->
                         [ws[k] EXCEPT !.moved = @ /\ k \notin due]]
        /\ Report(result = "polled" /\ DOMAIN ws # {},
                  result = "error" \/ broken)
  BY DEF EndTurn, PositionsWritten
<1>2. ASSUME NEW k \in DOMAIN ws PROVE windows'[k].page = ws[k].page
  <2>1. ws[k] \in Window
    OBVIOUS
  <2>2. windows'[k] = [ws[k] EXCEPT !.moved = @ /\ k \notin due]
    BY <1>1
  <2>3. QED BY <2>1, <2>2 DEF Window
<1>3. broken => DOMAIN ws # {}
  BY <1>1
<1> DEFINE ready   == result = "polled" /\ DOMAIN ws # {}
           failing == result = "error" \/ broken
<1>4. Report(ready, failing)
  BY <1>1
<1>5. DOMAIN windows' = DOMAIN ws
  BY <1>1
<1>6. /\ readySent' = (readySent \/ ready)
      /\ status' = IF ready /\ ~readySent THEN "ready"
                   ELSE IF failing /\ ~readySent THEN "error"
                   ELSE status
  BY <1>4 DEF Report
<1>7. ready => readySent'
  BY <1>6, Zenon
<1>8. ~ready => (readySent' <=> readySent)
  BY <1>6, Zenon
<1>9. \/ status' \in {status, "ready"}
      \/ ~readySent /\ ~ready /\ failing
  BY <1>6, Zenon
<1>10. ~ready /\ failing =>
         \/ result = "error"
         \/ DOMAIN ws # {} /\ result # "polled"
  BY <1>3, Zenon
<1>11. QED
  <2> HIDE DEF ready, failing
  <2>1. readySent => readySent'
    BY <1>7, <1>8
  <2>2. result = "polled" /\ DOMAIN ws # {} => readySent'
    BY <1>7 DEF ready
  <2>3. QED BY <1>2, <1>5, <1>9, <1>10, <2>1, <2>2

LEMMA PollReliable ==
  ASSUME Reliable, LInv, Typed', Poll
  PROVE  LInv'
<1> DEFINE revision == manifest.revision
           style    == manifest.style
           changed  == lastRevision # revision
           gone     == Open \ Wanted(style)
           closed   == [h \in Handles |->
                          IF h \in gone THEN 0
                          ELSE Retain(closedAt, revision)[h]]
           failed   == Retain(failedAt, revision)
           due      == Due(style, closed, failed, revision)
<1>1. PICK broken \in {None} \cup {k \in due : MayBreak(k, changed)} :
        LET done == IF broken = None THEN due
                    ELSE {k \in due : Before(k, broken)}
        IN /\ failedAt' =
                [k \in Keys |->
                   IF k = broken /\ k \notin Open THEN revision
                   ELSE IF \/ k \in done
                           \/ k = Dock /\ broken = None /\ Docked(style) = {}
                   THEN 0
                   ELSE failed[k]]
           /\ lastRevision' = revision
           /\ closedAt' = closed
           /\ EndTurn(Synchronized(style, done, broken, changed),
                      IF broken = None THEN "polled" ELSE "error")
  BY DEF Poll
<1> DEFINE done == IF broken = None THEN due
                   ELSE {k \in due : Before(k, broken)}
           ws   == Synchronized(style, done, broken, changed)
           result == IF broken = None THEN "polled" ELSE "error"
<1>2. /\ style \in [Handles -> {"hidden", "normal", "docked"}]
      /\ changed \in BOOLEAN
      /\ Typed /\ Noted
  BY DEF LInv, Typed, TypeOK, Manifests
<1>3. due \subseteq Keys /\ done \subseteq due
  BY DEF Due, Wanted, Normal, Keys
<1>4. UNCHANGED <<session, closeFiles, launcher>> /\ running
  BY DEF Poll
<1>5. /\ DOMAIN ws = (Open \cap Wanted(style)) \cup done
      /\ ws \in [DOMAIN ws -> Window]
  <2>1. done \in SUBSET Keys
    BY <1>3
  <2> HIDE DEF style, done, changed
  <2>2. QED BY <1>2, <2>1, SynchronizedTyped
<1>6. ASSUME NEW h \in Handles
      PROVE  closedAt'[h] \in {0, closedAt[h]} /\ closed[h] \in {0, closedAt[h]}
  BY <1>1, <1>2 DEF Retain, Typed, TypeOK
<1>7. \A k \in Keys : failedAt'[k] \in {0, revision, failedAt[k]}
                      /\ failed[k] \in {0, failedAt[k]}
  BY <1>1, <1>2 DEF Retain, Typed, TypeOK
<1>8. Noted'
  BY <1>1, <1>2, <1>4, <1>6, <1>7, NumbersTyped DEF Noted, session
<1>9. ClosedFiguresAreReported'
  BY <1>4, <1>6, NumbersTyped DEF LInv, ClosedFiguresAreReported, session
<1>10. ~flushing => broken = None
  BY DEF MayBreak, Reliable
<1>11. EndTurn(ws, result)
  BY <1>1
<1>12. /\ Open' = DOMAIN ws
       /\ \A k \in DOMAIN ws : windows'[k].page = ws[k].page
       /\ result = "polled" /\ DOMAIN ws # {} => readySent'
       /\ result = "polled" => status' \in {status, "ready"}
  <2> HIDE DEF ws
  <2>1. /\ DOMAIN windows' = DOMAIN ws
        /\ \A k \in DOMAIN ws : windows'[k].page = ws[k].page
        /\ result = "polled" /\ DOMAIN ws # {} => readySent'
        /\ \/ status' \in {status, "ready"}
           \/ ~readySent /\ result = "error"
           \/ ~readySent /\ DOMAIN ws # {} /\ result # "polled"
    <3> HIDE DEF result
    <3>1. QED BY <1>5, <1>11, EndTurnReports
  <2>2. QED BY <2>1 DEF Open
<1>13. ASSUME ~flushing, NEW k \in DOMAIN ws PROVE manifest.version <= ws[k].page
  <2>1. done = due /\ broken = None
    BY <1>10, <1>13
  <2>2. CASE k \notin Open
    <3>1. ws[k].page = pages
      BY <2>2, <1>5 DEF Synchronized
    <3>2. QED BY <3>1, <1>2 DEF Noted
  <2>3. CASE k \in Open /\ ~changed
    <3>1. ws[k].page = windows[k].page
      BY <2>3, <1>5 DEF Synchronized
    <3>2. manifest.version <= windows[k].page
      BY <1>13, <2>3, <1>2, NumbersTyped DEF LInv, WindowsAreCurrent
    <3>3. QED BY <3>1, <3>2
  <2>4. CASE k \in Open /\ changed
    <3>1. k \in Wanted(style) /\ k \in Keys
      BY <1>3, <1>5 DEF Due, Wanted, Normal, Keys
    <3>2. lastRevision < revision
      BY <2>4, <1>2, NumbersTyped DEF Noted
    <3>3. failed[k] < revision
      BY <3>1, <3>2, <1>2, <1>7, NumbersTyped DEF Noted
    <3>4. k \in Handles => closed[k] < revision
      BY <3>1, <3>2, <1>2, <1>6, NumbersTyped DEF Noted
    <3>5. revision \in Nat /\ failed[k] \in Nat /\ (k \in Handles => closed[k] \in Nat)
      BY <3>1, <1>2, <1>6, <1>7, NumbersTyped
    <3>6. k \in due
      BY <3>1, <3>3, <3>4, <3>5 DEF Due, Suppressed
    <3>7. ws[k].page = pages
      BY <2>1, <2>4, <3>6, <1>5 DEF Synchronized
    <3>8. QED BY <3>7, <1>2 DEF Noted
  <2>5. QED BY <2>2, <2>3, <2>4
<1>14. WindowsAreCurrent'
  BY <1>2, <1>4, <1>12, <1>13, NumbersTyped DEF WindowsAreCurrent, session, Typed
<1>15. Ready'
  <2>1. quiet' = quiet /\ flushing' = flushing
    BY <1>4 DEF session
  <2>2. SUFFICES ASSUME quiet
                 PROVE  /\ ~flushing
                        /\ status' # "error"
                        /\ Open' # {} => readySent'
    BY <2>1, Zenon DEF Ready
  <2>3. ~flushing /\ status # "error"
    BY <2>2 DEF LInv, Ready
  <2>4. result = "polled"
    BY <2>3, <1>10
  <2>5. QED BY <2>3, <2>4, <1>12
<1>16. BrowserReplacesHost'
  BY <1>4 DEF LInv, BrowserReplacesHost, session
<1>17. QED BY <1>8, <1>9, <1>14, <1>15, <1>16 DEF LInv

\* A turn that reads no manifest, before anything is published: it shows the
\* windows it showed, and reports no error of its own.
LEMMA IdleReliable ==
  ASSUME LInv, NEW result \in {"missed", "error"}, EndTurn(windows, result),
         result = "error" => flushing, Typed',
         UNCHANGED <<session, closeFiles, launcher, lastRevision, closedAt,
                     failedAt>>,
         running
  PROVE  LInv'
<1>1. windows \in [DOMAIN windows -> Window] /\ Typed
  BY DEF LInv, Typed, TypeOK, Open
<1>2. /\ Open' = Open
      /\ \A k \in Open : windows'[k].page = windows[k].page
      /\ readySent => readySent'
      /\ \/ status' \in {status, "ready"}
         \/ ~readySent /\ result = "error"
         \/ ~readySent /\ Open # {}
  BY <1>1, EndTurnReports DEF Open
<1>3. Noted'
  BY DEF LInv, Noted, session
<1>4. ClosedFiguresAreReported'
  BY DEF LInv, ClosedFiguresAreReported, session
<1>5. WindowsAreCurrent'
  BY <1>2 DEF LInv, WindowsAreCurrent, session
<1>6. Ready'
  <2>1. quiet' = quiet /\ flushing' = flushing
    BY DEF session
  <2>2. SUFFICES ASSUME quiet
                 PROVE  /\ ~flushing
                        /\ status' # "error"
                        /\ Open' # {} => readySent'
    BY <2>1, Zenon DEF Ready
  <2>3. ~flushing /\ status # "error" /\ (Open # {} => readySent)
    BY <2>2 DEF LInv, Ready
  <2>4. QED BY <1>2, <2>3
<1>7. BrowserReplacesHost'
  BY DEF LInv, BrowserReplacesHost, session
<1>8. QED BY <1>3, <1>4, <1>5, <1>6, <1>7 DEF LInv

\* The user closes a window: what is noted is reported.
LEMMA CloseReliable ==
  ASSUME LInv, Typed', NEW k \in Keys, CloseRequested(k)
  PROVE  LInv'
<1>1. PICK told \in SUBSET windows[k].managed :
        /\ closeFiles' = closeFiles \cup told
        /\ closedAt' = [h \in Handles |->
                          IF h \in told THEN lastRevision ELSE closedAt[h]]
        /\ windows' = IF told = windows[k].managed
                      THEN [j \in Open \ {k} |-> windows[j]] ELSE windows
        /\ status' = IF told # windows[k].managed /\ ~readySent THEN "error"
                     ELSE status
  BY DEF CloseRequested
<1>2. /\ UNCHANGED <<session, readySent, lastRevision, failedAt, running, launcher>>
      /\ k \in Open /\ Typed
  BY DEF CloseRequested, LInv
<1>3. /\ Open' \subseteq Open
      /\ \A j \in Open' : windows'[j] = windows[j]
  BY <1>1 DEF Open
<1>4. \A h \in Handles :
        \/ closedAt'[h] = closedAt[h]
        \/ closedAt'[h] = lastRevision /\ h \in closeFiles'
  BY <1>1
<1>5. Noted'
  BY <1>2, <1>4, NumbersTyped DEF LInv, Noted, session
<1>6. ClosedFiguresAreReported'
  BY <1>1, <1>2, <1>4 DEF LInv, ClosedFiguresAreReported, session
<1>7. WindowsAreCurrent'
  BY <1>2, <1>3 DEF LInv, WindowsAreCurrent, session
<1>8. Ready'
  <2>1. quiet' = quiet /\ flushing' = flushing /\ readySent' = readySent
    BY <1>2 DEF session
  <2>2. SUFFICES ASSUME quiet
                 PROVE  /\ ~flushing
                        /\ status' # "error"
                        /\ Open' # {} => readySent
    BY <2>1, Zenon DEF Ready
  <2>3. ~flushing /\ status # "error" /\ (Open # {} => readySent)
    BY <2>2 DEF LInv, Ready
  <2>4. readySent
    BY <1>2, <2>3
  <2>5. status' = status
    BY <1>1, <2>4
  <2>6. QED BY <2>3, <2>4, <2>5
<1>9. BrowserReplacesHost'
  BY <1>2 DEF LInv, BrowserReplacesHost, session
<1>10. QED BY <1>5, <1>6, <1>7, <1>8, <1>9 DEF LInv

LEMMA LInvStep == Reliable /\ LInv /\ [Next]_vars => LInv'
<1> SUFFICES ASSUME Reliable, LInv, [Next]_vars PROVE LInv'
  OBVIOUS
<1>1. Typed /\ Typed'
  BY TypedStep DEF LInv
<1>2. CASE BeginFlush
  <2>1. Noted'
    BY <1>1, <1>2, NumbersTyped DEF BeginFlush, host, LInv, Noted
  <2>2. QED
    BY <1>1, <1>2, <2>1 DEF BeginFlush, host, LInv, ClosedFiguresAreReported,
       WindowsAreCurrent, Ready, BrowserReplacesHost
<1>3. CASE EndFlush
  <2>1. PICK s \in [Handles -> Styles], r \in 1 .. MaxFlushes :
          /\ r = manifest.revision + 1
          /\ manifest' = [revision |-> r, version |-> pages, style |-> s]
    BY <1>3 DEF EndFlush, Reliable
  <2>2. /\ manifest'.revision = manifest.revision + 1
        /\ manifest'.version = pages
        /\ pages' = pages /\ lastRevision' = lastRevision
        /\ closedAt' = closedAt /\ failedAt' = failedAt
    BY <1>3, <2>1 DEF EndFlush, host
  <2>3. Noted'
    BY <1>1, <2>2, NumbersTyped DEF LInv, Noted
  <2>4. ClosedFiguresAreReported'
    BY <1>1, <2>2, NumbersTyped DEF LInv, Noted, ClosedFiguresAreReported
  <2>5. WindowsAreCurrent'
    BY <1>1, <2>2, NumbersTyped DEF LInv, Noted, WindowsAreCurrent
  <2>6. ~quiet
    BY <1>3 DEF EndFlush, LInv, Ready
  <2>7. QED
    BY <1>1, <1>3, <2>3, <2>4, <2>5, <2>6
       DEF EndFlush, LInv, Ready, BrowserReplacesHost
<1>4. CASE AbandonFlush
  BY <1>4 DEF AbandonFlush, Reliable
<1>5. CASE PollMiss
  <2>1. EndTurn(windows, "missed") /\ running
    BY <1>5 DEF PollMiss
  <2>2. UNCHANGED <<session, closeFiles, launcher, lastRevision, closedAt,
                    failedAt>>
    BY <1>5 DEF PollMiss
  <2>3. QED BY <1>1, <2>1, <2>2, IdleReliable
<1>6. CASE PollTorn
  <2>1. EndTurn(windows, "error") /\ running /\ flushing
    BY <1>6 DEF PollTorn
  <2>2. UNCHANGED <<session, closeFiles, launcher, lastRevision, closedAt,
                    failedAt>>
    BY <1>6 DEF PollTorn
  <2>3. QED BY <1>1, <2>1, <2>2, IdleReliable
<1>7. CASE Poll
  BY <1>1, <1>7, PollReliable
<1>8. ASSUME NEW k \in Keys, CloseRequested(k) PROVE LInv'
  BY <1>1, <1>8, CloseReliable
<1>9. ASSUME NEW k \in Keys, Moved(k) PROVE LInv'
  <2>1. /\ windows' = [windows EXCEPT ![k].moved = TRUE]
        /\ UNCHANGED <<session, closeFiles, running, lastRevision, readySent,
                       closedAt, failedAt, status, launcher>>
    BY <1>9 DEF Moved
  <2>2. windows \in [Open -> Window]
    BY <1>1 DEF Typed, TypeOK
  <2>3. /\ Open' = Open
        /\ \A j \in Open : windows'[j].page = windows[j].page
    BY <2>1, <2>2 DEF Open, Window
  <2>4. QED
    BY <1>1, <2>1, <2>3 DEF LInv, Noted, ClosedFiguresAreReported,
       WindowsAreCurrent, Ready, BrowserReplacesHost, session
<1>10. CASE LauncherLooks
  <2>1. launcher' = "failed" => status = "error" \/ ~running
    BY <1>10 DEF LauncherLooks
  <2>2. QED
    BY <1>1, <1>10, <2>1 DEF LauncherLooks, host, session, LInv, Noted,
       ClosedFiguresAreReported, WindowsAreCurrent, Ready, BrowserReplacesHost, Open
<1>11. CASE LauncherTimesOut
  BY <1>1, <1>11 DEF LauncherTimesOut, host, session, LInv, Noted,
     ClosedFiguresAreReported, WindowsAreCurrent, Ready, BrowserReplacesHost, Open
<1>12. CASE UNCHANGED vars
  BY <1>1, <1>12 DEF vars, host, session, LInv, Noted,
     ClosedFiguresAreReported, WindowsAreCurrent, Ready, BrowserReplacesHost, Open
<1>13. QED
  BY <1>2, <1>3, <1>4, <1>5, <1>6, <1>7, <1>8, <1>9, <1>10, <1>11, <1>12
     DEF Next

LEMMA LInvAlways == Reliable => (Spec => []LInv)
<1> SUFFICES ASSUME Reliable PROVE Spec => []LInv
  OBVIOUS
<1>1. LInv /\ [Next]_vars => LInv'
  BY LInvStep
<1>2. QED BY <1>1, LInvInit, PTL DEF Spec

\* Where only reports can fail and the clock advances, a figure is kept closed
\* only while its close event is there for the program to read:
\* ClosedFiguresAreReported, for any figures and flushes.
THEOREM ClosesAreReported == Reliable => (Spec => []ClosedFiguresAreReported)
<1>1. LInv => ClosedFiguresAreReported
  BY DEF LInv
<1>2. QED BY <1>1, LInvAlways, PTL

\* There, a host that has read the current manifest shows the current pages in
\* every window: WindowsAreCurrent.
THEOREM PagesStayCurrent == Reliable => (Spec => []WindowsAreCurrent)
<1>1. LInv => WindowsAreCurrent
  BY DEF LInv
<1>2. QED BY <1>1, LInvAlways, PTL

\* There, the launcher opens a browser before the next flush only when no host
\* runs: BrowserReplacesHost.
THEOREM BrowserOnlyWithoutHost == Reliable => (Spec => []BrowserReplacesHost)
<1>1. LInv => BrowserReplacesHost
  BY DEF LInv
<1>2. QED BY <1>1, LInvAlways, PTL

=============================================================================
