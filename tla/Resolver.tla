------------------------------ MODULE Resolver ------------------------------
(***************************************************************************)
(* The resolver: which file a name means in a source file, for the files   *)
(* there are.  A directory is a path of segments; a segment is a plain     *)
(* directory, a package +p, the folder of a class @C or a private          *)
(* directory.  A name is the sequence of its parts, p.q.f is <<p, q, f>>.  *)
(*                                                                         *)
(* Files come and go while a program is written: that is the state.        *)
(***************************************************************************)
EXTENDS Naturals, FiniteSets, Sequences, SequencesExt

CONSTANTS Names,        \* the names that are looked up
          Files,        \* the files there may be
          SourceDirs,   \* where the source file may lie
          SearchPaths,  \* the search roots there may be, in order
          MaxFiles      \* bound: files at a time

\* Segments of directories, and the directories.
Segments == {"dir", "+", "@", "private"} \X STRING
Dirs     == Seq(Segments) \ {<< >>}

\* A source file lies somewhere below a plain directory.
ASSUME ResolverAssumption ==
  /\ Names \subseteq Seq(STRING) \ {<< >>}
  /\ Files \subseteq [dir : Dirs, name : STRING, kind : {"function", "classdef"}]
  /\ SourceDirs \subseteq {d \in Dirs : d[1][1] = "dir"}
  /\ SearchPaths \subseteq Seq(Dirs)
  /\ MaxFiles \in Nat

VARIABLES files,        \* the files there are
          sourceDir,    \* ResolverContext: where the source file lies
          roots         \* its effective search roots

vars == <<files, sourceDir, roots>>

File(dir, name, kind) == [dir |-> dir, name |-> name, kind |-> kind]
Dir(name)     == <<"dir", name>>
Package(name) == <<"+", name>>
Class(name)   == <<"@", name>>
Private       == <<"private", "private">>

\* m_file_looks_like_classdef decides between the two kinds of files.
FunctionFile(dir, name) == {File(dir, name, "function")} \cap files
ClassFile(dir, name)    == {File(dir, name, "classdef")} \cap files
AnyFile(dir, name)      == FunctionFile(dir, name) \cup ClassFile(dir, name)

\* ResolvedFunction, ResolvedClass: what the name stands for, and the file.
Match(as, name, found) == {[as |-> as, name |-> name, file |-> f] : f \in found}
Function(name, found)  == Match("function", name, found)
ClassOf(name, found)   == Match("class", name, found)

-----------------------------------------------------------------------------
(***************************************************************************)
(* Where a name is looked for.  A place holds the match found there, or    *)
(* nothing.                                                                *)
(***************************************************************************)

\* Mutant: one level is left, whatever lies above.
EnclosingRootOneUp(dir) == IF Last(dir)[1] = "dir" THEN << >> ELSE <<Front(dir)>>

\* enclosing_lookup_root: out of packages, class folders and private
\* directories; none for a directory that is plain itself.
EnclosingRoot(dir) ==
  LET plain == {i \in DOMAIN dir : dir[i][1] = "dir"}
      last  == CHOOSE i \in plain : \A j \in plain : j <= i
  IN  IF last = Len(dir) THEN << >> ELSE <<SubSeq(dir, 1, last)>>

PushUniquePath(paths, path) ==
  IF Contains(paths, path) THEN paths ELSE Append(paths, path)

\* The paths without the second and later mention of any, up to each length.
UniqueUpTo(paths) ==
  LET unique[n \in 0 .. Len(paths)] ==
        IF n = 0 THEN << >> ELSE PushUniquePath(unique[n - 1], paths[n])
  IN  unique

\* effective_search_roots: none comes twice.
EffectiveRoots(dir, searchRoots) ==
  LET paths == <<dir>> \o EnclosingRoot(dir) \o searchRoots
  IN  UniqueUpTo(paths)[Len(paths)]

\* The directory of the packages a name begins with.
PackageDir(root, name) == root \o [i \in 1 .. Len(name) - 1 |-> Package(name[i])]

\* resolve_private_function
PrivateFunction(name) ==
  IF Len(name) > 1 THEN {}
  ELSE Function(name, FunctionFile(Append(sourceDir, Private), name[1]))

\* resolve_folder_class_definition, resolve_package_folder_class_definition
FolderClass(name, root) ==
  ClassOf(name, AnyFile(Append(PackageDir(root, name), Class(Last(name))), Last(name)))

\* resolve_plain_class_definition, resolve_package_class_definition
PlainClass(name, root) == ClassOf(name, ClassFile(PackageDir(root, name), Last(name)))

\* resolve_package_function
PackageFunction(name, root) ==
  IF Len(name) = 1 THEN {}
  ELSE Function(name, FunctionFile(PackageDir(root, name), Last(name)))

\* The file of the name in the root itself; no file's name has dots.
PlainFunction(name, root) ==
  IF Len(name) > 1 THEN {} ELSE Function(name, FunctionFile(root, name[1]))

\* The match in the first of the places that has one.
FirstIn(places) ==
  UNION {places[i] : i \in {i \in DOMAIN places : \A j \in 1 .. i - 1 : places[j] = {}}}

\* resolve_static_class_reference: the last part is a method of the class.
StaticClass(name, root) ==
  IF Len(name) = 1 THEN {}
  ELSE FirstIn(<<FolderClass(Front(name), root), PlainClass(Front(name), root)>>)

FirstInRoots(Places(_)) == FirstIn([i \in DOMAIN roots |-> FirstIn(Places(roots[i]))])

-----------------------------------------------------------------------------
(***************************************************************************)
(* The lookups.  resolve_callable and resolve_all_callables each list the  *)
(* places themselves.                                                      *)
(***************************************************************************)

\* resolve_function: files of classes are passed over.
ResolveFunction(name) ==
  FirstIn(<<PrivateFunction(name),
            FirstInRoots(LAMBDA r : <<PackageFunction(name, r), PlainFunction(name, r)>>)>>)

\* Mutant: functions before classes.
CallableFunctionsFirst(name) ==
  FirstIn(<<PrivateFunction(name),
            FirstInRoots(LAMBDA r :
              <<PackageFunction(name, r), PlainFunction(name, r),
                FolderClass(name, r), StaticClass(name, r), PlainClass(name, r)>>)>>)
\* Mutant: the private directory of every root.
CallablePrivateOfRoots(name) ==
  FirstInRoots(LAMBDA r :
    <<Function(name, FunctionFile(Append(r, Private), Last(name))),
      FolderClass(name, r), PackageFunction(name, r), StaticClass(name, r),
      PlainFunction(name, r), PlainClass(name, r)>>)

\* resolve_callable
ResolveCallable(name) ==
  FirstIn(<<PrivateFunction(name),
            FirstInRoots(LAMBDA r :
              <<FolderClass(name, r), PackageFunction(name, r), StaticClass(name, r),
                PlainFunction(name, r), PlainClass(name, r)>>)>>)

\* push_unique_callable_match: a file is listed once.
PushUnique(matches, place) ==
  IF place = {} \/ \E i \in DOMAIN matches : \E m \in matches[i], n \in place : m.file = n.file
  THEN matches ELSE Append(matches, place)

\* Mutant: the pass ends with a match of the root's own.
PushFirstOfRoot(matches, name, r) ==
  PushUnique(matches,
    FirstIn(<<FolderClass(name, r), PackageFunction(name, r), StaticClass(name, r),
              PlainFunction(name, r), PlainClass(name, r)>>))
\* One pass of the loop of resolve_all_callables.
PushAllOfRoot(matches, name, r) ==
  LET folder  == PushUnique(matches, FolderClass(name, r))
      package == PushUnique(folder, PackageFunction(name, r))
      static  == PushUnique(package, StaticClass(name, r))
      plain   == PushUnique(static, PlainFunction(name, r))
  IN  PushUnique(plain, PlainClass(name, r))

\* The matches listed after each pass.
ListedUpTo(name) ==
  LET listed[n \in 0 .. Len(roots)] ==
        IF n = 0 THEN PushUnique(<< >>, PrivateFunction(name))
        ELSE PushAllOfRoot(listed[n - 1], name, roots[n])
  IN  listed

\* resolve_all_callables, in order.
ResolveAllCallables(name) == ListedUpTo(name)[Len(roots)]

\* Mutant: plain classes first.
ResolveClassPlainFirst(name) ==
  FirstInRoots(LAMBDA r : <<PlainClass(name, r), FolderClass(name, r)>>)
\* resolve_class_definition
ResolveClass(name) ==
  FirstInRoots(LAMBDA r : <<FolderClass(name, r), PlainClass(name, r)>>)

-----------------------------------------------------------------------------
Init ==
  /\ files = {}
  /\ sourceDir \in SourceDirs
  /\ \E searchRoots \in SearchPaths : roots = EffectiveRoots(sourceDir, searchRoots)

\* A directory has one file of a name.
FileAppears(f) ==
  /\ AnyFile(f.dir, f.name) = {}
  /\ Cardinality(files) < MaxFiles
  /\ files' = files \cup {f}
  /\ UNCHANGED <<sourceDir, roots>>

FileGoes(f) ==
  /\ files' = files \ {f}
  /\ UNCHANGED <<sourceDir, roots>>

Next == (\E f \in Files : FileAppears(f)) \/ (\E f \in files : FileGoes(f))

Spec == Init /\ [][Next]_vars

-----------------------------------------------------------------------------
(***************************************************************************)
(* What the lookups promise.                                               *)
(***************************************************************************)

\* What a call means (resolve_callable) is the first of the matches that
\* resolve_all_callables lists, which is what `which -all` shows first: the two
\* go through the places one by one, each in code of its own.
CallsMeanTheFirst ==
  \A name \in Names : ResolveCallable(name) = FirstIn(ResolveAllCallables(name))

\* The lookups agree: what a call takes for a function is that function to
\* resolve_function, and what it takes for a class, or for a method of one, is
\* that class to resolve_class_definition.
LookupsAgree ==
  \A name \in Names : \A m \in ResolveCallable(name) :
    /\ m.as = "function" => ResolveFunction(name) = {m}
    /\ m.as = "class" => ResolveClass(m.name) = {m}

\* A file of a private directory is meant by a call only in that directory and
\* in the one the directory lies in (resolve_private_function): no search root
\* gives it away.
PrivateStaysPrivate ==
  \A name \in Names : \A m \in ResolveCallable(name) :
    Last(m.file.dir) = Private => sourceDir \in {m.file.dir, Front(m.file.dir)}

\* Code in a package finds what is in the package, and in the packages around
\* it, by its full name, from the class folders and private directories in it
\* too (enclosing_lookup_root): the call means some file.  The first k segments
\* of the source file's directory are those outside of all packages.
PackagesFindThemselves ==
  \A name \in Names : \A f \in files : \A k \in DOMAIN sourceDir :
    /\ Len(name) > 1 /\ f.name = Last(name)
    /\ f.dir = PackageDir(SubSeq(sourceDir, 1, k), name) /\ IsPrefix(f.dir, sourceDir)
    /\ sourceDir[k][1] = "dir" /\ \A i \in k + 1 .. Len(sourceDir) : sourceDir[i][1] # "dir"
    => ResolveCallable(name) # {}

\* When the file that a call means goes, the call means the second of the
\* matches resolve_all_callables listed: the list is what lies shadowed, in
\* order.  (A class folder hides the class file beside it from the list when the
\* call means a method, so that one may come forward too.)
ShadowedComeForward ==
  [][\A f \in files \ files', name \in Names : \A m \in ResolveCallable(name) :
       m.file = f =>
         LET all == ResolveAllCallables(name)
             next == ResolveCallable(name)'
         IN  \/ next = IF Len(all) > 1 THEN all[2] ELSE {}
             \/ m.name # name /\ Last(f.dir)[1] = "@"
                  /\ {n.file : n \in next} = ClassFile(Front(f.dir), f.name)]_vars
=============================================================================
