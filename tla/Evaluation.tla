----------------------------- MODULE Evaluation -----------------------------
(***************************************************************************)
(* What an evaluation may answer, to either engine: a value, or an error.  *)
(* The callback of a figure event it hears of may fail too.                *)
(***************************************************************************)
EXTENDS Naturals

CONSTANTS Errors,     \* errors an evaluation may raise
          HostErrors, \* errors the callback of a figure event may raise
          NoError,
          MaxLen      \* longest iterable

=============================================================================
