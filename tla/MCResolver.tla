----------------------------- MODULE MCResolver -----------------------------
(***************************************************************************)
(* A project with a package, a class folder and private directories, and a *)
(* library on the search path that has files of the same names.            *)
(***************************************************************************)
EXTENDS Resolver

MCNames == {<<"f">>, <<"p", "f">>, <<"p", "p">>, <<"p", "q", "f">>}

Work == <<Dir("work")>>
Lib  == <<Dir("lib")>>

MCSourceDirs ==
  {Work, Work \o <<Package("p")>>, Work \o <<Package("p"), Private>>,
   Work \o <<Package("p"), Class("f")>>, Work \o <<Class("p")>>, Lib}

MCSearchPaths == {<< >>, <<Lib>>, <<Lib, Work>>}

MCFiles ==
  {File(d, "f", k) : d \in {Work, Lib, Work \o <<Package("p")>>}, k \in {"function", "classdef"}}
  \cup {File(Work \o <<Private>>, "f", "function"),
        File(Work \o <<Package("p"), Private>>, "f", "function"),
        File(Work \o <<Class("f")>>, "f", "classdef"),
        File(Lib \o <<Package("p"), Class("f")>>, "f", "classdef"),
        File(Work \o <<Class("p")>>, "p", "classdef"), File(Work, "p", "classdef"),
        File(Work \o <<Package("p"), Package("q")>>, "f", "function"),
        File(Work \o <<Package("p")>>, "q", "classdef")}
=============================================================================
