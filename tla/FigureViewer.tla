---------------------------- MODULE FigureViewer ----------------------------
(***************************************************************************)
(* What a viewer of figures promises its user: a figure the user has       *)
(* dismissed stays away until the program publishes something newer.       *)
(*                                                                         *)
(* This is the abstract specification of FigureHost.  It knows nothing of  *)
(* windows, files or failures, only which figures are on the screen.       *)
(***************************************************************************)
EXTENDS Integers

CONSTANT Handles

VARIABLES seen,       \* the revision the viewer shows, 0 before the first
          shown,      \* the figures on the screen
          dismissed   \* those the user closed since a newer revision came

vars == <<seen, shown, dismissed>>

Init ==
  /\ seen = 0
  /\ shown = {}
  /\ dismissed = {}

\* The user closes figures that are on the screen.
Dismiss ==
  \E D \in (SUBSET shown) \ {{}} :
     /\ shown' = shown \ D
     /\ dismissed' = dismissed \cup D
     /\ UNCHANGED seen

\* The viewer opens and closes windows, but none the user dismissed.
Refresh ==
  /\ shown' \in SUBSET (Handles \ dismissed)
  /\ UNCHANGED <<seen, dismissed>>

\* The viewer takes up another revision.  Only a newer one brings dismissed
\* figures back: the clock that numbers revisions may have been set back.
Advance ==
  /\ seen' \in Nat \ {0, seen}
  /\ dismissed' = IF seen' > seen THEN {} ELSE dismissed
  /\ shown' \in SUBSET (Handles \ dismissed')

Next == Dismiss \/ Refresh \/ Advance

Spec == Init /\ [][Next]_vars

=============================================================================
