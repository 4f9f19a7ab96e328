---------------------------- MODULE MCWorkspace -----------------------------
(***************************************************************************)
(* Small programs for Workspace.                                           *)
(***************************************************************************)
EXTENDS Workspace, TLC

CONSTANTS script, nested, helper

\* A script that declares a global and calls a helper.  The helper has a
\* private input, a persistent and a variable that a nested function captures;
\* the nested function declares the same global.
Program == {script, helper, nested}
ScopeOf ==
    script :> ("g" :> <<"global", "g">> @@ "a" :> <<script, "a">>)
    @@ helper :> ("p" :> <<helper, "p">> @@ "x" :> <<helper, "x">>
                  @@ "a" :> <<helper, "a">>)
    @@ nested :> ("x" :> <<helper, "x">> @@ "g" :> <<"global", "g">>)
ParamsOf == script :> {} @@ helper :> {"a"} @@ nested :> {}
OutputsOf == script :> {} @@ helper :> {"a"} @@ nested :> {}
PersistentsOf == script :> {} @@ helper :> {"p"} @@ nested :> {}
CallsOf == script :> {helper} @@ helper :> {nested} @@ nested :> {}
HandlesOf == script :> {} @@ helper :> {nested} @@ nested :> {}
ClearsOf == script :> {{"a"}} @@ helper :> {{"x"}} @@ nested :> {}

\* A script that calls a function which calls itself.
RecursiveScope ==
    script :> ("a" :> <<script, "a">>) @@ helper :> ("a" :> <<helper, "a">>)
RecursiveParams == script :> {} @@ helper :> {"a"}
RecursiveCalls == script :> {helper} @@ helper :> {helper}
NoNames == script :> {} @@ helper :> {}

OnlyScript == {script}
CellsAlike == Permutations(Cells)
=============================================================================
