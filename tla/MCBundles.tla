----------------------------- MODULE MCBundles ------------------------------
(***************************************************************************)
(* Two files to bundle, two helpers, one of them in a private directory.   *)
(***************************************************************************)
EXTENDS Bundles

MCName == [p \in Paths |-> IF p = 1 THEN "main" ELSE "helper"]

Uses(a, b, c, d) == <<a, b, c, d>>

\* The first helper is number 0 in one bundle and not in the other; files that
\* refer to each other and back to a root.
MCGraphs ==
  {Uses({3, 4}, {4}, {}, {}),
   Uses({2, 3}, {4}, {4}, {3}),
   Uses({3}, {3, 4}, {1}, {2})}
=============================================================================
