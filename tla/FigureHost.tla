----------------------------- MODULE FigureHost -----------------------------
(***************************************************************************)
(* The figure host of cli/src/windows_host.rs: a process that shows the    *)
(* figures of a program in windows.  The two share a directory.  The       *)
(* program writes the pages and then the manifest `session.json`; the host *)
(* polls the manifest and leaves an event file for every window the user   *)
(* closes or moves.  The command line that launches the host waits for the *)
(* state the host writes to a third file.                                  *)
(*                                                                         *)
(* The program (flush_figure_backend) and the launcher are the environment *)
(* of the host and are modelled as far as they touch those files.          *)
(***************************************************************************)
EXTENDS Integers, FiniteSets

CONSTANTS Handles,        \* figure handles, positive integers
          Styles,         \* what a figure can look like in the manifest
          MaxFlushes,     \* bound: flushes of the program
          MaxMisses,      \* polls without a manifest the host puts up with (8)
          ClockAdvances,  \* TRUE: no two flushes get the same timestamp
          Failures        \* what may fail: "create", "page", "write", "flush"

Dock == 0                         \* the key of the window of docked figures
None == -1
Keys == Handles \cup {Dock}       \* HostWindowKey

ASSUME HandlesAssumption == Handles \subseteq Nat \ {0}
ASSUME StylesAssumption  == Styles \subseteq {"hidden", "normal", "docked"}
ASSUME BoundsAssumption  ==
  /\ MaxFlushes \in Nat \ {0}
  /\ MaxMisses \in Nat
  /\ ClockAdvances \in BOOLEAN

VARIABLES
  manifest,       \* session.json: revision (0: no file), version, style
  pages,          \* version of the pages on disk
  flushing,       \* the program is between its pages and its manifest
  closeFiles,     \* handles with an event-close file
  positionFiles,  \* handles with an event-position file
  running,        \* the host's event loop has not exited
  windows,        \* open windows: handles managed, page loaded, moved since
  figures,        \* current_figures, of which only the style matters
  lastRevision,   \* 0 stands for None
  misses,         \* last_session_miss
  readySent,
  closedAt,       \* locally_closed_at_revision, 0: no entry
  failedAt,       \* failed_keys_at_revision, 0: no entry
  status,         \* the host's state file
  launcher,       \* what launch_internal_host has come to
  quiet,          \* history: the program has not flushed since the launch
  dismissed       \* history: see FigureViewer

session == <<manifest, pages, flushing, quiet>>
host == <<running, windows, figures, lastRevision, misses, readySent,
          closedAt, failedAt, dismissed>>
vars == <<session, closeFiles, positionFiles, host, status, launcher>>

-----------------------------------------------------------------------------
(* The manifest and what the host reads from it. *)

Versions  == 0 .. MaxFlushes
Manifests == [revision : Versions, version : Versions,
              style : [Handles -> {"hidden", "normal", "docked"}]]
NoManifest == [revision |-> 0, version |-> 0,
               style |-> [h \in Handles |-> "hidden"]]
Window    == [managed : SUBSET Handles, page : Versions, moved : BOOLEAN]

Normal(style) == {h \in Handles : style[h] = "normal"}
Docked(style) == {h \in Handles : style[h] = "docked"}
Wanted(style) ==
  Normal(style) \cup (IF Docked(style) = {} THEN {} ELSE {Dock})
ManagedBy(style, k) == IF k = Dock THEN Docked(style) ELSE {k}

Open  == DOMAIN windows
Shown == UNION {windows[k].managed : k \in Open}

\* The order in which a poll looks at the windows.
Before(j, k) == j # Dock /\ (k = Dock \/ j < k)

\* An entry keeps a window away until a greater revision is read.
Suppressed(noted, k, revision) == noted[k] >= revision
\* Mutant: the entries of the revision read are dropped as well.
RetainNewer(noted, revision) ==
  [k \in DOMAIN noted |-> IF noted[k] > revision THEN noted[k] ELSE 0]

Retain(noted, revision) ==
  [k \in DOMAIN noted |-> IF noted[k] >= revision THEN noted[k] ELSE 0]

-----------------------------------------------------------------------------
Init ==
  /\ \E s \in [Handles -> Styles] :
        manifest \in {NoManifest, [revision |-> 1, version |-> 1, style |-> s]}
  /\ pages = manifest.version
  /\ flushing = FALSE
  /\ closeFiles = {} /\ positionFiles = {}
  /\ running = TRUE
  /\ windows = [k \in {} |-> {}]
  /\ figures = NoManifest.style
  /\ lastRevision = 0
  /\ misses = 0
  /\ readySent = FALSE
  /\ closedAt = [h \in Handles |-> 0]
  /\ failedAt = [k \in Keys |-> 0]
  /\ status = "starting"
  /\ launcher = "waiting"
  /\ quiet = TRUE
  /\ dismissed = {}

-----------------------------------------------------------------------------
(* The program publishes its figures. *)

\* It takes the event files and writes the pages ...
BeginFlush ==
  /\ ~flushing
  /\ pages < MaxFlushes
  /\ flushing' = TRUE
  /\ quiet' = FALSE
  /\ pages' = pages + 1
  /\ closeFiles' = {}
  /\ positionFiles' = {}
  /\ UNCHANGED <<manifest, host, status, launcher>>

\* ... then the manifest, numbered with the time of day ...
EndFlush ==
  /\ flushing
  /\ flushing' = FALSE
  /\ \E s \in [Handles -> Styles], r \in 1 .. MaxFlushes :
        /\ ClockAdvances => r = manifest.revision + 1
        /\ manifest' = [revision |-> r, version |-> pages, style |-> s]
  /\ UNCHANGED <<pages, quiet, closeFiles, positionFiles, host, status,
                 launcher>>

\* ... unless writing one of the pages fails.
AbandonFlush ==
  /\ flushing
  /\ "flush" \in Failures
  /\ flushing' = FALSE
  /\ UNCHANGED <<manifest, pages, quiet, closeFiles, positionFiles, host,
                 status, launcher>>

-----------------------------------------------------------------------------
(* One turn of the host's event loop: poll, flush_pending_position_writes, *)
(* should_exit.                                                            *)

\* Mutant: only windows that failed are given up.
ShouldExitUnlessClosed ==
  /\ Open = {}
  /\ \/ misses > MaxMisses
     \/ /\ lastRevision # 0
        /\ \A h \in Normal(figures) : Suppressed(failedAt, h, lastRevision)
        /\ Docked(figures) # {} => Suppressed(failedAt, Dock, lastRevision)

\* should_exit: no window is left and none is to come.
ShouldExit ==
  /\ Open = {}
  /\ \/ misses > MaxMisses
     \/ /\ lastRevision # 0
        /\ \A h \in Normal(figures) :
              \/ Suppressed(closedAt, h, lastRevision)
              \/ Suppressed(failedAt, h, lastRevision)
        /\ Docked(figures) # {} => Suppressed(failedAt, Dock, lastRevision)

\* flush_pending_position_writes: the positions of the windows in due, older
\* than the debounce time, go to event files.
PositionsWritten(ws, due) ==
  [k \in DOMAIN ws |-> [ws[k] EXCEPT !.moved = @ /\ k \notin due]]

\* mark_ready_if_needed, mark_error: once a window was there the host is ready
\* and no error is reported any more.
Report(nowReady, failing) ==
  /\ readySent' = (readySent \/ nowReady)
  /\ status' = IF nowReady /\ ~readySent THEN "ready"
               ELSE IF failing /\ ~readySent THEN "error"
               ELSE status

\* The rest of a turn whose poll left the windows ws and came to result.  The
\* first position that cannot be written leaves the others for a later turn.
EndTurn(ws, result) ==
  \E due \in SUBSET {k \in DOMAIN ws : ws[k].moved}, broken \in BOOLEAN :
    /\ broken => /\ "write" \in Failures
                 /\ \E k \in DOMAIN ws \ due : ws[k].moved
    /\ windows' = PositionsWritten(ws, due)
    /\ positionFiles' = positionFiles \cup due
    /\ Report(result = "polled" /\ DOMAIN ws # {}, result = "error" \/ broken)
    /\ running' = ~ShouldExit'

\* No manifest yet.
PollMiss ==
  /\ running
  /\ manifest.revision = 0
  /\ misses' = IF misses > MaxMisses THEN misses ELSE misses + 1
  /\ UNCHANGED <<figures, lastRevision, closedAt, failedAt, dismissed>>
  /\ EndTurn(windows, "missed")
  /\ UNCHANGED <<session, closeFiles, launcher>>

\* The program is writing the manifest, and what the host reads does not parse.
PollTorn ==
  /\ running
  /\ flushing
  /\ UNCHANGED <<figures, lastRevision, misses, closedAt, failedAt, dismissed>>
  /\ EndTurn(windows, "error")
  /\ UNCHANGED <<session, closeFiles, launcher>>

\* The windows a poll synchronizes, in the order of Before.
Due(style, closed, failed, revision) ==
  {k \in Wanted(style) :
     /\ ~Suppressed(failed, k, revision)
     /\ k \in Handles => ~Suppressed(closed, k, revision)}

\* Synchronizing window k may fail: it cannot be created, or a window that is
\* open cannot load the page of a new revision.  During a flush the page may be
\* gone already, with the figure.
MayBreak(k, changed) ==
  IF k \in Open THEN changed /\ (flushing \/ "page" \in Failures)
                ELSE flushing \/ "create" \in Failures

\* Mutant: a window that is open is taken to show its page already.
SynchronizedOnce(style, done, broken, changed) ==
  [k \in (Open \cap Wanted(style)) \cup done |->
     IF k \notin Open
     THEN [managed |-> ManagedBy(style, k), page |-> pages, moved |-> FALSE]
     ELSE windows[k]]

\* The windows after synchronizing those in done, and broken in part.
Synchronized(style, done, broken, changed) ==
  [k \in (Open \cap Wanted(style)) \cup done |->
     IF k \notin Open
     THEN [managed |-> ManagedBy(style, k), page |-> pages, moved |-> FALSE]
     ELSE [managed |-> IF k \in done \cup {broken} THEN ManagedBy(style, k)
                       ELSE windows[k].managed,
           page    |-> IF k \in done /\ changed THEN pages ELSE windows[k].page,
           moved   |-> windows[k].moved]]

\* The host reads the manifest.  The first window that cannot be synchronized
\* ends the poll; if it could not be created it is not tried again.
Poll ==
  /\ running
  /\ manifest.revision # 0
  /\ LET revision == manifest.revision
         style    == manifest.style
         changed  == lastRevision # revision
         gone     == Open \ Wanted(style)
         closed   == [h \in Handles |->
                        IF h \in gone THEN 0 ELSE Retain(closedAt, revision)[h]]
         failed   == Retain(failedAt, revision)
         due      == Due(style, closed, failed, revision)
     IN \E broken \in {None} \cup {k \in due : MayBreak(k, changed)} :
          LET done == IF broken = None THEN due
                      ELSE {k \in due : Before(k, broken)}
          IN /\ failedAt' =
                  [k \in Keys |->
                     IF k = broken /\ k \notin Open THEN revision
                     ELSE IF \/ k \in done
                             \/ k = Dock /\ broken = None /\ Docked(style) = {}
                     THEN 0
                     ELSE failed[k]]
             /\ misses' = 0
             /\ lastRevision' = revision
             /\ figures' = style
             /\ closedAt' = closed
             /\ dismissed' = IF revision > lastRevision THEN {} ELSE dismissed
             /\ EndTurn(Synchronized(style, done, broken, changed),
                        IF broken = None THEN "polled" ELSE "error")
  /\ UNCHANGED <<session, closeFiles, launcher>>

-----------------------------------------------------------------------------
(* The user closes or moves a window. *)

\* Mutant: the closes are noted before they are reported.
CloseNotedFirst(k) ==
  /\ running
  /\ k \in Open
  /\ \E told \in SUBSET windows[k].managed :
        /\ \A h \in told, j \in windows[k].managed : j < h => j \in told
        /\ told # windows[k].managed => "write" \in Failures
        /\ closeFiles' = closeFiles \cup told
        /\ closedAt' = [h \in Handles |->
                          IF h \in windows[k].managed THEN lastRevision
                          ELSE closedAt[h]]
        /\ dismissed' = dismissed \cup told
        /\ windows' = IF told = windows[k].managed
                      THEN [j \in Open \ {k} |-> windows[j]] ELSE windows
        /\ status' = IF told # windows[k].managed /\ ~readySent THEN "error"
                     ELSE status
  /\ UNCHANGED <<session, positionFiles, running, figures, lastRevision,
                 misses, readySent, failedAt, launcher>>

\* handle_close_requested: each figure of the window is reported and noted in
\* turn.  If a report cannot be written the rest is not tried and the window
\* stays.
CloseRequested(k) ==
  /\ running
  /\ k \in Open
  /\ \E told \in SUBSET windows[k].managed :
        /\ \A h \in told, j \in windows[k].managed : j < h => j \in told
        /\ told # windows[k].managed => "write" \in Failures
        /\ closeFiles' = closeFiles \cup told
        /\ closedAt' = [h \in Handles |->
                          IF h \in told THEN lastRevision ELSE closedAt[h]]
        /\ dismissed' = dismissed \cup told
        /\ windows' = IF told = windows[k].managed
                      THEN [j \in Open \ {k} |-> windows[j]] ELSE windows
        /\ status' = IF told # windows[k].managed /\ ~readySent THEN "error"
                     ELSE status
  /\ UNCHANGED <<session, positionFiles, running, figures, lastRevision,
                 misses, readySent, failedAt, launcher>>

\* Mutant: the window of docked figures keeps its position too.
MovedAny(k) ==
  /\ running
  /\ k \in Open
  /\ windows' = [windows EXCEPT ![k].moved = TRUE]
  /\ UNCHANGED <<session, closeFiles, positionFiles, running, figures,
                 lastRevision, misses, readySent, closedAt, failedAt, dismissed,
                 status, launcher>>

\* Moved and Resized: only windows of a single figure keep their position.
Moved(k) ==
  /\ running
  /\ k \in Open \ {Dock}
  /\ windows' = [windows EXCEPT ![k].moved = TRUE]
  /\ UNCHANGED <<session, closeFiles, positionFiles, running, figures,
                 lastRevision, misses, readySent, closedAt, failedAt, dismissed,
                 status, launcher>>

-----------------------------------------------------------------------------
(* The launcher waits for the host (wait_for_host_ready).  If it gives up   *)
(* the figures are opened in a browser instead.                             *)

\* The launcher looks at the state file, then at the process.  A host that
\* reports ready and exits in between is taken for one that failed.
LauncherLooks ==
  /\ launcher = "waiting"
  /\ \/ status = "ready" /\ launcher' = "launched"
     \/ (status = "error" \/ ~running) /\ launcher' = "failed"
  /\ UNCHANGED <<session, closeFiles, positionFiles, host, status>>

\* Mutant: after the timeout the host is given up.
LauncherGivesUp ==
  /\ launcher = "waiting"
  /\ launcher' = "failed"
  /\ UNCHANGED <<session, closeFiles, positionFiles, host, status>>

\* After the timeout a living host counts as launched and is declared ready.
LauncherTimesOut ==
  /\ launcher = "waiting"
  /\ launcher' = IF running THEN "launched" ELSE "failed"
  /\ status' = IF running THEN "ready" ELSE status
  /\ UNCHANGED <<session, closeFiles, positionFiles, host>>

-----------------------------------------------------------------------------
Next ==
  \/ BeginFlush
  \/ EndFlush
  \/ AbandonFlush
  \/ PollMiss
  \/ PollTorn
  \/ Poll
  \/ \E k \in Keys : CloseRequested(k)
  \/ \E k \in Keys : Moved(k)
  \/ LauncherLooks
  \/ LauncherTimesOut

Spec == Init /\ [][Next]_vars

\* The event loop wakes up every POLL_INTERVAL and polls again.
Fairness == WF_vars(PollMiss) /\ WF_vars(Poll)
FairSpec == Spec /\ Fairness

-----------------------------------------------------------------------------
(* Properties *)

TypeOK ==
  /\ manifest \in Manifests
  /\ pages \in Versions
  /\ flushing \in BOOLEAN
  /\ closeFiles \subseteq Handles
  /\ positionFiles \subseteq Handles
  /\ running \in BOOLEAN
  /\ Open \subseteq Keys
  /\ windows \in [Open -> Window]
  /\ figures \in [Handles -> {"hidden", "normal", "docked"}]
  /\ lastRevision \in Versions
  /\ misses \in 0 .. MaxMisses + 1
  /\ readySent \in BOOLEAN
  /\ closedAt \in [Handles -> Versions]
  /\ failedAt \in [Keys -> Versions]
  /\ status \in {"starting", "ready", "error"}
  /\ launcher \in {"waiting", "launched", "failed"}
  /\ quiet \in BOOLEAN
  /\ dismissed \subseteq Handles

\* The host is a viewer that keeps its promise: whatever windows it opens and
\* closes in the course of its polls, a figure the user closed stays closed
\* until the revision advances.
Viewer == INSTANCE FigureViewer WITH seen <- lastRevision, shown <- Shown
HonoursCloses == Viewer!Spec

\* A figure the host keeps closed at the current revision is one whose close
\* event the program can still read: the host never hides a figure on its own
\* account, so that the program takes it for open.
ClosedFiguresAreReported ==
  ~flushing =>
    \A h \in Handles :
      closedAt[h] # 0 /\ closedAt[h] >= manifest.revision => h \in closeFiles

\* A host that has read the current manifest shows the current pages, in every
\* window, however polls and flushes interleave.
WindowsAreCurrent ==
  (~flushing /\ lastRevision = manifest.revision) =>
    \A k \in Open : windows[k].page >= manifest.version

\* As the command line launches the host, after the program, a browser is
\* opened in its place only when there is no host: the user does not get the
\* figures twice, whatever the host and the launcher do in whichever order.
BrowserReplacesHost == (launcher = "failed" /\ quiet) => ~running

\* A host without a window opens one or exits: it does not linger unseen, and
\* no visible figure is left waiting for a window.
HostIsSeenOrGone == (running /\ Open = {}) ~> (Open # {} \/ ~running)

=============================================================================
