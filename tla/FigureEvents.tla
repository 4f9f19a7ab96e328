---------------------------- MODULE FigureEvents ----------------------------
(***************************************************************************)
(* How a running program hears of the windows its figures are shown in.    *)
(* The host leaves event files; every flush of the figures takes them in   *)
(* (consume_figure_backend_events) and queues what it finds; and after     *)
(* every statement, or instruction, the engine drains the queue            *)
(* (drain_pending_host_figure_events) and calls the figures' callbacks.    *)
(* A callback is program text like any other: its statements flush, its    *)
(* statements are followed by a drain, and it may close any figure, fail,  *)
(* or catch the failure of a callback it caused.                           *)
(*                                                                         *)
(* The call stack of the engine is the variable stack, innermost last:     *)
(*   body     program text: the program itself or a callback of figure     *)
(*   drain    drain_pending_host_figure_events, with what it has taken     *)
(*   closing  invoke_close_builtin_outputs, with the figures still to do   *)
(*   resized  invoke_graphics_builtin_with_resize_callbacks, likewise      *)
(***************************************************************************)
EXTENDS Integers, FiniteSets, Sequences

CONSTANTS Handles,      \* figure handles, positive integers
          MaxCalls,     \* bound: calls the program and its callbacks make
          MaxEvents,    \* bound: windows the user closes or moves
          UndrainedEnd  \* the last statement may be one without a drain

ASSUME HandlesAssumption == Handles \subseteq Nat \ {0}
ASSUME BoundsAssumption  == MaxCalls \in Nat /\ MaxEvents \in Nat
ASSUME EndAssumption     == UndrainedEnd \in BOOLEAN

None == 0

VARIABLES
  figures,         \* the figures there are, and which callbacks they have
  current,         \* current_figure
  closeFiles,      \* event-close files, not read yet
  positionFiles,   \* event-position files, not read yet
  pendingCloses,   \* pending_host_close_events
  pendingResizes,  \* pending_host_resize_events
  activeCloses,    \* active_close_callbacks
  activeResizes,   \* active_resize_callbacks
  stack,
  error,           \* the error being propagated
  owed,            \* history: closes taken in and not answered yet
  calls, events    \* how many there were, for the bounds

queues == <<closeFiles, positionFiles, pendingCloses, pendingResizes>>
marks  == <<activeCloses, activeResizes>>
counts == <<calls, events>>
vars   == <<figures, current, queues, marks, stack, error, owed, counts>>

Callbacks == [close : BOOLEAN, resize : BOOLEAN]
Live      == DOMAIN figures

Kinds  == {"body", "drain", "closing", "resized"}
Roles  == {"program", "onClose", "onRequest", "onResize", "none"}
Entry  == [kind : Kinds, role : Roles, figure : Handles \cup {None},
           closes : SUBSET Handles, resizes : SUBSET Handles,
           dirty : BOOLEAN]   \* a statement is under way; did_work

Activity(kind, closes, resizes) ==
  [kind |-> kind, role |-> "none", figure |-> None,
   closes |-> closes, resizes |-> resizes, dirty |-> FALSE]
Body(role, h) ==
  [kind |-> "body", role |-> role, figure |-> h,
   closes |-> {}, resizes |-> {}, dirty |-> FALSE]

Depth == Len(stack)
Top   == stack[Depth]
Running(kind) == stack # << >> /\ error = "none" /\ Top.kind = kind
Pop           == SubSeq(stack, 1, Depth - 1)
Becomes(e)    == [stack EXCEPT ![Depth] = e]
Calls(e, f)   == Append(Becomes(e), f)

Least(S) == CHOOSE h \in S : \A j \in S : h <= j

\* delete_graphics_handle of a figure: another one becomes current.
Without(H) == [h \in Live \ H |-> figures[h]]
\* Mutant: the figure with the next number becomes current.
CurrentIsNext(H) == IF current \notin H THEN current ELSE current + 1
\* Mutant: nothing else becomes current.
CurrentKept(H) == current

CurrentWithout(H) ==
  IF current \notin H THEN current
  ELSE IF Live \ H = {} THEN None ELSE Least(Live \ H)

\* flush_figure_backend, as far as it reads: events of figures there are now
\* are queued, every file is removed.  A moved window is one whose figure gets
\* another position.
Flush(live) ==
  /\ pendingCloses' = pendingCloses \cup (closeFiles \cap live)
  /\ pendingResizes' = pendingResizes \cup (positionFiles \cap live)
  /\ closeFiles' = {} /\ positionFiles' = {}

-----------------------------------------------------------------------------
Init ==
  /\ figures \in [Handles -> Callbacks]
  /\ current \in Handles
  /\ closeFiles = {} /\ positionFiles = {}
  /\ pendingCloses = {} /\ pendingResizes = {}
  /\ activeCloses = {} /\ activeResizes = {}
  /\ stack = <<Body("program", None)>>
  /\ error = "none"
  /\ owed = {}
  /\ calls = 0 /\ events = 0

-----------------------------------------------------------------------------
(* The user closes or moves the window of a figure. *)

UserEvent ==
  /\ stack # << >>
  /\ events < MaxEvents
  /\ events' = events + 1
  /\ \E h \in Live :
        \/ /\ closeFiles' = closeFiles \cup {h}
           /\ UNCHANGED positionFiles
        \/ /\ positionFiles' = positionFiles \cup {h}
           /\ UNCHANGED closeFiles
  /\ UNCHANGED <<figures, current, pendingCloses, pendingResizes, marks,
                 stack, error, owed, calls>>

-----------------------------------------------------------------------------
(* A body runs its statements.  A statement of the interpreter may make      *)
(* several calls, an instruction of the bytecode machine makes one.          *)

MayCall ==
  /\ Running("body")
  /\ calls < MaxCalls
  /\ calls' = calls + 1

Busy == [Top EXCEPT !.dirty = TRUE]

\* The figure is current, and new or shown again with other properties.
Shown(h, c) ==
  /\ figures' = [j \in Live \cup {h} |-> IF j = h THEN c ELSE figures[j]]
  /\ current' = h

\* figure(h, ...)
CallFigure ==
  /\ MayCall
  /\ \E h \in Handles, c \in Callbacks, moved \in BOOLEAN :
        /\ Shown(h, c)
        /\ stack' = Calls(Busy, Activity("resized", {},
             IF c.resize /\ (moved \/ h \notin Live) THEN {h} \ activeResizes
             ELSE {}))
  /\ UNCHANGED <<queues, marks, error, owed, events>>

\* set(figs, 'Position', ...): any number of figures may move.
CallSet ==
  /\ MayCall
  /\ \E H \in SUBSET Live :
        stack' = Calls(Busy, Activity("resized", {},
                   {h \in H \ activeResizes : figures[h].resize}))
  /\ UNCHANGED <<figures, current, queues, marks, error, owed, events>>

\* close, close all, close(figs)
CallClose ==
  /\ MayCall
  /\ \E H \in SUBSET Live : stack' = Calls(Busy, Activity("closing", H, {}))
  /\ UNCHANGED <<figures, current, queues, marks, error, owed, events>>

\* closereq, or delete(h)
CallDelete ==
  /\ MayCall
  /\ \E h \in Live :
        /\ figures' = Without({h})
        /\ current' = CurrentWithout({h})
        /\ Flush(Live \ {h})
        /\ owed' = (owed \ {h}) \cup (closeFiles \cap (Live \ {h}))
  /\ stack' = Becomes(Busy)
  /\ UNCHANGED <<marks, error, events>>

\* drawnow, pause, and every plotting builtin
CallDrawnow ==
  /\ MayCall
  /\ Flush(Live)
  /\ owed' = owed \cup (closeFiles \cap Live)
  /\ stack' = Becomes(Busy)
  /\ UNCHANGED <<figures, current, marks, error, events>>

\* A figure is there already when one of its properties is refused; nothing
\* is flushed then and no callback called.
CallFails ==
  /\ MayCall
  /\ error' = "failed"
  /\ \/ UNCHANGED <<figures, current>>
     \/ \E h \in Handles, c \in Callbacks : Shown(h, c)
  /\ UNCHANGED <<queues, marks, stack, owed, events>>

\* The statement is over and the events it has heard of are handled.
EndStatement ==
  /\ Running("body")
  /\ Top.dirty
  /\ stack' = Calls([Top EXCEPT !.dirty = FALSE], Activity("drain", {}, {}))
  /\ UNCHANGED <<figures, current, queues, marks, error, owed, counts>>

\* Mutant: a callback that fails stays marked.
UnmarkedUnlessFailed(e) ==
  /\ activeCloses' = IF e.role = "onClose" /\ error = "none"
                     THEN activeCloses \ {e.figure} ELSE activeCloses
  /\ activeResizes' = IF e.role = "onResize" /\ error = "none"
                      THEN activeResizes \ {e.figure} ELSE activeResizes
  /\ owed' = IF e.role = "onClose" THEN owed \ {e.figure} ELSE owed

\* A callback that has ended is no longer active.
Unmarked(e) ==
  /\ activeCloses' =
       IF e.role = "onClose" THEN activeCloses \ {e.figure} ELSE activeCloses
  /\ activeResizes' =
       IF e.role = "onResize" THEN activeResizes \ {e.figure} ELSE activeResizes
  /\ owed' = IF e.role = "onClose" THEN owed \ {e.figure} ELSE owed

\* A callback that is a builtin or an anonymous function has no statement, and
\* the last statement of another may be one without a drain.
CallbackEnds ==
  /\ Running("body")
  /\ Top.role # "program"
  /\ Unmarked(Top)
  /\ stack' = Pop
  /\ UNCHANGED <<figures, current, queues, error, counts>>

\* The program ends with a flush that nothing follows.  Its last statement has
\* been followed by a drain, unless it is an if or a switch that has taken an
\* empty branch, or an assignment that is done early.
ProgramEnds ==
  /\ Running("body")
  /\ Top.dirty => UndrainedEnd
  /\ Top.role = "program"
  /\ Flush(Live)
  /\ owed' = owed \cup (closeFiles \cap Live)
  /\ stack' = << >>
  /\ UNCHANGED <<figures, current, marks, error, counts>>

-----------------------------------------------------------------------------
(* close and the graphics builtins call callbacks of their own. *)

\* invoke_close_builtin_outputs: a figure that is gone by now is an error.
CloseNext ==
  /\ Running("closing")
  /\ \E h \in Top.closes :
        LET rest == [Top EXCEPT !.closes = @ \ {h}] IN
        \/ /\ h \notin Live
           /\ error' = "gone"
           /\ UNCHANGED <<figures, current, stack, owed>>
        \/ /\ h \in Live /\ figures[h].close
           /\ current' = h
           /\ stack' = Calls(rest, Body("onRequest", h))
           /\ UNCHANGED <<figures, error, owed>>
        \/ /\ h \in Live /\ ~figures[h].close
           /\ figures' = Without({h})
           /\ current' = CurrentWithout({h})
           /\ owed' = owed \ {h}
           /\ stack' = Becomes(rest)
           /\ UNCHANGED error
  /\ UNCHANGED <<queues, marks, counts>>

ResizedNext ==
  /\ Running("resized")
  /\ Top.resizes # {}
  /\ LET h == Least(Top.resizes)
         rest == [Top EXCEPT !.resizes = @ \ {h}] IN
     \/ /\ h \notin Live
        /\ error' = "gone"
        /\ UNCHANGED <<current, activeResizes, stack>>
     \/ /\ h \in Live
        /\ current' = h
        /\ activeResizes' = activeResizes \cup {h}
        /\ stack' = Calls(rest, Body("onResize", h))
        /\ UNCHANGED error
  /\ UNCHANGED <<figures, queues, activeCloses, owed, counts>>

BuiltinEnds ==
  /\ Running("closing") \/ Running("resized")
  /\ Top.closes = {} /\ Top.resizes = {}
  /\ Flush(Live)
  /\ owed' = owed \cup (closeFiles \cap Live)
  /\ stack' = Pop
  /\ UNCHANGED <<figures, current, marks, error, counts>>

-----------------------------------------------------------------------------
(* drain_pending_host_figure_events: it takes both queues whole and empties  *)
(* them, handles the closes in order, then the resizes, flushes if it did    *)
(* anything, and looks at the queues again.                                  *)

DrainIdle == Running("drain") /\ Top.closes = {} /\ Top.resizes = {}

DrainTakes ==
  /\ DrainIdle /\ ~Top.dirty
  /\ pendingCloses \cup pendingResizes # {}
  /\ stack' = Becomes([Top EXCEPT !.closes = pendingCloses,
                                  !.resizes = pendingResizes])
  /\ pendingCloses' = {} /\ pendingResizes' = {}
  /\ UNCHANGED <<figures, current, closeFiles, positionFiles, marks, error,
                 owed, counts>>

\* Mutant: the queues are emptied once the events taken are handled.
DrainEmptiesLate ==
  /\ DrainIdle /\ Top.dirty
  /\ pendingCloses' = {} /\ pendingResizes' = {}
  /\ closeFiles' = {} /\ positionFiles' = {}
  /\ owed' = owed \cup (closeFiles \cap Live)
  /\ stack' = Becomes([Top EXCEPT !.dirty = FALSE])
  /\ UNCHANGED <<figures, current, marks, error, counts>>

\* Mutant: the queues are not looked at again.
DrainFlushesLast ==
  /\ DrainIdle /\ Top.dirty
  /\ Flush(Live)
  /\ owed' = owed \cup (closeFiles \cap Live)
  /\ stack' = Pop
  /\ UNCHANGED <<figures, current, marks, error, counts>>

DrainFlushes ==
  /\ DrainIdle /\ Top.dirty
  /\ Flush(Live)
  /\ owed' = owed \cup (closeFiles \cap Live)
  /\ stack' = Becomes([Top EXCEPT !.dirty = FALSE])
  /\ UNCHANGED <<figures, current, marks, error, counts>>

DrainEnds ==
  /\ DrainIdle /\ ~Top.dirty
  /\ pendingCloses \cup pendingResizes = {}
  /\ stack' = Pop
  /\ UNCHANGED <<figures, current, queues, marks, error, owed, counts>>

\* A close is answered by the figure's callback; a figure without one, or one
\* whose callback is running, is closed.  A figure that is gone is an error.
DrainCloses ==
  /\ Running("drain")
  /\ Top.closes # {}
  /\ LET h == Least(Top.closes)
         rest == [Top EXCEPT !.closes = @ \ {h}, !.dirty = TRUE] IN
     \/ /\ h \notin Live
        /\ error' = "gone"
        /\ UNCHANGED <<figures, current, activeCloses, stack, owed>>
     \/ /\ h \in Live /\ figures[h].close /\ h \notin activeCloses
        /\ current' = h
        /\ activeCloses' = activeCloses \cup {h}
        /\ stack' = Calls(rest, Body("onClose", h))
        /\ UNCHANGED <<figures, error, owed>>
     \/ /\ h \in Live /\ (figures[h].close => h \in activeCloses)
        /\ figures' = Without({h})
        /\ current' = CurrentWithout({h})
        /\ owed' = owed \ {h}
        /\ stack' = Becomes(rest)
        /\ UNCHANGED <<activeCloses, error>>
  /\ UNCHANGED <<queues, activeResizes, counts>>

\* A resize of a figure without a callback, or whose callback is running, is
\* passed over.
DrainResizes ==
  /\ Running("drain")
  /\ Top.closes = {} /\ Top.resizes # {}
  /\ LET h == Least(Top.resizes)
         rest == [Top EXCEPT !.resizes = @ \ {h}] IN
     IF h \in Live /\ figures[h].resize /\ h \notin activeResizes
     THEN /\ current' = h
          /\ activeResizes' = activeResizes \cup {h}
          /\ stack' = Calls([rest EXCEPT !.dirty = TRUE], Body("onResize", h))
     ELSE stack' = Becomes(rest) /\ UNCHANGED <<current, activeResizes>>
  /\ UNCHANGED <<figures, queues, activeCloses, error, owed, counts>>

-----------------------------------------------------------------------------
(* An error leaves one activity after another: a callback is unmarked, a     *)
(* drain takes the events it has not come to with it.                        *)

Failing == stack # << >> /\ error # "none"

Unwind ==
  /\ Failing
  /\ IF Top.kind = "drain"
     THEN owed' = owed \ Top.closes /\ UNCHANGED marks
     ELSE Unmarked(Top)
  /\ stack' = Pop
  /\ UNCHANGED <<figures, current, queues, error, counts>>

\* The statement is in a try block of the body: the try statement itself, or
\* the first instruction of the handler, is followed by a drain.
Caught ==
  /\ Failing
  /\ Top.kind = "body"
  /\ error' = "none"
  /\ stack' = Becomes(Busy)
  /\ UNCHANGED <<figures, current, queues, marks, owed, counts>>

-----------------------------------------------------------------------------
CallBuiltin ==
  CallFigure \/ CallSet \/ CallClose \/ CallDelete \/ CallDrawnow \/ CallFails

Engine ==
  \/ EndStatement \/ CallbackEnds
  \/ CloseNext \/ ResizedNext \/ BuiltinEnds
  \/ DrainTakes \/ DrainFlushes \/ DrainEnds \/ DrainCloses \/ DrainResizes
  \/ Unwind \/ Caught

Next == CallBuiltin \/ Engine \/ ProgramEnds \/ UserEvent

Spec == Init /\ [][Next]_vars

\* One thread runs the program: it goes on with what is under way.  Nothing
\* says that the program makes another call, or that it ends.
FairSpec == Spec /\ WF_vars(Engine)

-----------------------------------------------------------------------------
(* Properties *)

TypeOK ==
  /\ Live \subseteq Handles
  /\ figures \in [Live -> Callbacks]
  /\ current \in Handles \cup {None}
  /\ closeFiles \subseteq Handles /\ positionFiles \subseteq Handles
  /\ pendingCloses \subseteq Handles /\ pendingResizes \subseteq Handles
  /\ activeCloses \subseteq Handles /\ activeResizes \subseteq Handles
  /\ stack \in Seq(Entry)
  /\ error \in {"none", "failed", "gone"}
  /\ owed \subseteq Handles
  /\ calls \in 0 .. MaxCalls /\ events \in 0 .. MaxEvents

Of(role)    == {i \in DOMAIN stack : stack[i].role = role}
Figures(I)  == {stack[i].figure : i \in I}
OneEach(I)  == \A i, j \in I : stack[i].figure = stack[j].figure => i = j

CloseRoles  == {"onClose", "onRequest"}

\* The figures marked are those whose callback a drain or a graphics builtin is
\* running, however callbacks, drains and errors nest, and neither enters a
\* callback that is running on such an account.  close looks at no mark and
\* sets none: of two callbacks that answer closes of one figure, one inside
\* the other, one at least was entered by close, and it stands on the stack
\* without a mark of its own.
MarksMatchStack ==
  /\ activeCloses = Figures(Of("onClose"))
  /\ activeResizes = Figures(Of("onResize")) /\ OneEach(Of("onResize"))
  /\ \A i, j \in DOMAIN stack :
        /\ i < j
        /\ stack[i].role \in CloseRoles /\ stack[j].role \in CloseRoles
        /\ stack[i].figure = stack[j].figure
        => \E k \in {i, j} : /\ stack[k].role = "onRequest"
                            /\ stack[k - 1].kind = "closing"

\* The current figure is one there is: gcf, closereq and the plotting builtins
\* never act on a figure that a callback or the user has closed.
CurrentFigureIsLive == current = None \/ current \in Live

\* A close the user asked for is queued, taken or being answered until it is
\* answered.  It is lost only when an error ends the drain that has taken it;
\* one that arrives while callbacks run is not.
ClosesAreKept ==
  owed \subseteq pendingCloses \cup Figures(Of("onClose")) \cup
                 UNION {stack[i].closes : i \in {j \in DOMAIN stack :
                                                   stack[j].kind = "drain"}}

\* Every close the program has heard of while it runs is answered: by its
\* callback, by closing the figure, or because an error ended the drain that
\* had taken it (ClosesAreKept says that nothing else drops one).  The program
\* does not end before, unless it ends with an error.
ClosesAreAnswered ==
  \A h \in Handles :
    (h \in owed /\ stack # << >>)
      ~> (h \notin owed \/ (stack = << >> /\ error # "none"))

=============================================================================
