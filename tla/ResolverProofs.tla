-------------------------- MODULE ResolverProofs --------------------------
(***************************************************************************)
(* What names mean, for any files, names and search paths.  A lookup takes *)
(* the first of some places that holds anything, so the lemmas about the   *)
(* first of two, of five and of one per root carry the theorems.           *)
(***************************************************************************)
EXTENDS Resolver, WellFoundedInduction, TLAPS

-----------------------------------------------------------------------------
(***************************************************************************)
(* The first of some places.                                               *)
(***************************************************************************)
LEMMA Smallest ==
  ASSUME NEW S \in SUBSET Nat, S # {}
  PROVE  \E n \in S : \A k \in S : n <= k
<1>1. PICK n \in S : \A k \in S : ~ (<<k, n>> \in OpToRel(<, Nat))
  BY NatLessThanWellFounded, WFMin, Zenon
<1>2. ASSUME NEW k \in S
      PROVE  n <= k
  <2>1. ~ (k < n)
    BY <1>1 DEF OpToRel
  <2> QED BY <2>1
<1> QED BY <1>2

\* A place that holds something while none before it does is the first.
LEMMA FirstIs ==
  ASSUME NEW n \in Nat, NEW places, DOMAIN places = 1 .. n,
         NEW i \in 1 .. n, places[i] # {}, \A j \in 1 .. i - 1 : places[j] = {}
  PROVE  FirstIn(places) = places[i]
<1> DEFINE Reached == {k \in 1 .. n : \A j \in 1 .. k - 1 : places[j] = {}}
<1>1. FirstIn(places) = UNION {places[k] : k \in Reached}
  BY DEF FirstIn
<1>2. i \in Reached
  OBVIOUS
<1>3. ASSUME NEW k \in Reached
      PROVE  places[k] \subseteq places[i]
  <2>1. k <= i
    <3>1. CASE i < k
      <4>1. i \in 1 .. k - 1
        BY <3>1
      <4> QED BY <4>1
    <3> QED BY <3>1
  <2>2. CASE k < i
    BY <2>2
  <2> QED BY <2>1, <2>2
<1> HIDE DEF Reached
<1> QED BY <1>1, <1>2, <1>3, Zenon

\* What is in the first place is in one of them, with none before it.
LEMMA FirstIsOf ==
  ASSUME NEW n \in Nat, NEW places, DOMAIN places = 1 .. n, NEW x \in FirstIn(places)
  PROVE  \E i \in 1 .. n :
           /\ x \in places[i] /\ \A j \in 1 .. i - 1 : places[j] = {}
           /\ FirstIn(places) = places[i]
<1>1. PICK i \in 1 .. n : x \in places[i] /\ \A j \in 1 .. i - 1 : places[j] = {}
  BY DEF FirstIn
<1>2. FirstIn(places) = places[i]
  BY <1>1, FirstIs
<1> QED BY <1>1, <1>2

LEMMA FirstIsNone ==
  ASSUME NEW n \in Nat, NEW places, DOMAIN places = 1 .. n
  PROVE  FirstIn(places) = {} <=> \A i \in 1 .. n : places[i] = {}
<1>1. ASSUME NEW i \in 1 .. n, places[i] # {}
      PROVE  FirstIn(places) # {}
  <2> DEFINE Found == {k \in 1 .. n : places[k] # {}}
  <2>1. PICK k \in Found : \A l \in Found : k <= l
    <3>1. Found \in SUBSET Nat /\ Found # {}
      BY <1>1
    <3> HIDE DEF Found
    <3> QED BY <3>1, Smallest
  <2>2. \A j \in 1 .. k - 1 : places[j] = {}
    BY <2>1
  <2>3. FirstIn(places) = places[k]
    BY <2>1, <2>2, FirstIs
  <2> QED BY <2>1, <2>3
<1>2. ASSUME \A i \in 1 .. n : places[i] = {}
      PROVE  FirstIn(places) = {}
  BY <1>2 DEF FirstIn
<1> QED BY <1>1, <1>2

LEMMA FirstOfTwo ==
  ASSUME NEW a, NEW b
  PROVE  FirstIn(<<a, b>>) = IF a # {} THEN a ELSE b
<1> DEFINE places == <<a, b>>
<1>1. DOMAIN places = 1 .. 2 /\ places[1] = a /\ places[2] = b
  OBVIOUS
<1> HIDE DEF places
<1>2. ASSUME NEW i \in 1 .. 2, places[i] # {}, \A j \in 1 .. i - 1 : places[j] = {}
      PROVE  FirstIn(places) = places[i]
  BY <1>1, <1>2, FirstIs
<1>3. CASE a # {}
  <2>1. FirstIn(places) = places[1]
    BY <1>1, <1>2, <1>3
  <2> QED BY <1>1, <1>3, <2>1 DEF places
<1>4. CASE a = {} /\ b # {}
  <2>1. FirstIn(places) = places[2]
    BY <1>1, <1>2, <1>4
  <2> QED BY <1>1, <1>4, <2>1 DEF places
<1>5. CASE a = {} /\ b = {}
  <2>1. \A i \in 1 .. 2 : places[i] = {}
    BY <1>1, <1>5
  <2>2. FirstIn(places) = {}
    BY <1>1, <2>1, FirstIsNone
  <2> QED BY <1>5, <2>2 DEF places
<1> QED BY <1>3, <1>4, <1>5

LEMMA FirstOfFive ==
  ASSUME NEW a, NEW b, NEW c, NEW d, NEW e
  PROVE  FirstIn(<<a, b, c, d, e>>) =
           IF a # {} THEN a ELSE IF b # {} THEN b ELSE IF c # {} THEN c
           ELSE IF d # {} THEN d ELSE e
<1> DEFINE places == <<a, b, c, d, e>>
<1>1. /\ DOMAIN places = 1 .. 5
      /\ places[1] = a /\ places[2] = b /\ places[3] = c /\ places[4] = d /\ places[5] = e
  OBVIOUS
<1> HIDE DEF places
<1>2. ASSUME NEW i \in 1 .. 5, places[i] # {}, \A j \in 1 .. i - 1 : places[j] = {}
      PROVE  FirstIn(places) = places[i]
  BY <1>1, <1>2, FirstIs
<1>3. CASE a # {}
  <2>1. FirstIn(places) = places[1]
    BY <1>1, <1>2, <1>3
  <2> QED BY <1>1, <1>3, <2>1 DEF places
<1>4. CASE a = {} /\ b # {}
  <2>1. FirstIn(places) = places[2]
    BY <1>1, <1>2, <1>4
  <2> QED BY <1>1, <1>4, <2>1 DEF places
<1>5. CASE a = {} /\ b = {} /\ c # {}
  <2>1. FirstIn(places) = places[3]
    BY <1>1, <1>2, <1>5
  <2> QED BY <1>1, <1>5, <2>1 DEF places
<1>6. CASE a = {} /\ b = {} /\ c = {} /\ d # {}
  <2>1. FirstIn(places) = places[4]
    BY <1>1, <1>2, <1>6
  <2> QED BY <1>1, <1>6, <2>1 DEF places
<1>7. CASE a = {} /\ b = {} /\ c = {} /\ d = {}
  <2>1. CASE e # {}
    <3>1. FirstIn(places) = places[5]
      BY <1>1, <1>2, <1>7, <2>1
    <3> QED BY <1>1, <1>7, <3>1 DEF places
  <2>2. CASE e = {}
    <3>1. \A i \in 1 .. 5 : places[i] = {}
      BY <1>1, <1>7, <2>2
    <3>2. FirstIn(places) = {}
      BY <1>1, <3>1, FirstIsNone
    <3> QED BY <1>7, <2>2, <3>2 DEF places
  <2> QED BY <2>1, <2>2
<1> QED BY <1>3, <1>4, <1>5, <1>6, <1>7


-----------------------------------------------------------------------------
(***************************************************************************)
(* The search roots: every path is among them, once.                       *)
(***************************************************************************)
LEMMA UniqueEnds ==
  ASSUME NEW paths, NEW n \in Nat
  PROVE  \E unique : unique = [i \in 0 .. n |->
           IF i = 0 THEN << >> ELSE PushUniquePath(unique[i - 1], paths[i])]
<1> DEFINE Is(unique, k) == unique = [i \in 0 .. k |->
             IF i = 0 THEN << >> ELSE PushUniquePath(unique[i - 1], paths[i])]
           Bad == {k \in Nat : ~ \E unique : Is(unique, k)}
<1>1. Bad = {}
  <2> SUFFICES ASSUME Bad # {} PROVE FALSE
    OBVIOUS
  <2>1. PICK k \in Bad : \A j \in Bad : k <= j
    <3>1. Bad \in SUBSET Nat
      OBVIOUS
    <3> HIDE DEF Bad
    <3> QED BY <3>1, Smallest
  <2>2. k \in Nat /\ ~ \E unique : Is(unique, k)
    BY <2>1
  <2>3. CASE k = 0
    <3> DEFINE a == [i \in 0 .. 0 |-> << >>]
    <3>1. Is(a, 0)
      OBVIOUS
    <3> HIDE DEF Is
    <3> QED BY <2>2, <2>3, <3>1
  <2>4. CASE k # 0
    <3>1. k - 1 \in Nat /\ k - 1 \notin Bad
      BY <2>1, <2>2, <2>4
    <3>2. PICK b : Is(b, k - 1)
      BY <3>1
    <3> DEFINE a == [i \in 0 .. k |->
                 IF i = k THEN PushUniquePath(b[k - 1], paths[k]) ELSE b[i]]
    <3>3. b = [i \in 0 .. k - 1 |->
                IF i = 0 THEN << >> ELSE PushUniquePath(b[i - 1], paths[i])]
      BY <3>2
    <3>4. ASSUME NEW i \in 0 .. k
          PROVE  a[i] = IF i = 0 THEN << >> ELSE PushUniquePath(a[i - 1], paths[i])
      <4>1. CASE i = k
        <5>1. i - 1 \in 0 .. k /\ i - 1 # k /\ i # 0
          BY <2>2, <2>4, <4>1
        <5>2. a[i - 1] = b[k - 1]
          BY <4>1, <5>1
        <5> QED BY <4>1, <5>1, <5>2
      <4>2. CASE i # k
        <5>1. i \in 0 .. k - 1
          BY <2>2, <4>2
        <5>2. b[i] = IF i = 0 THEN << >> ELSE PushUniquePath(b[i - 1], paths[i])
          BY <3>3, <5>1
        <5>3. i # 0 => i - 1 \in 0 .. k /\ i - 1 # k
          BY <2>2, <4>2
        <5>4. i # 0 => a[i - 1] = b[i - 1]
          BY <5>3
        <5> QED BY <4>2, <5>2, <5>4
      <4> QED BY <4>1, <4>2
    <3>5. a = [i \in 0 .. k |->
                IF i = 0 THEN << >> ELSE PushUniquePath(a[i - 1], paths[i])]
      BY <3>4
    <3>6. Is(a, k)
      BY <3>5
    <3> HIDE DEF Is
    <3> QED BY <2>2, <3>6
  <2> QED BY <2>3, <2>4
<1>2. n \notin Bad
  BY <1>1
<1> QED BY <1>2

LEMMA UniqueUpToFollows ==
  ASSUME NEW paths, Len(paths) \in Nat
  PROVE  LET unique == UniqueUpTo(paths) IN
         /\ unique[0] = << >>
         /\ \A i \in 1 .. Len(paths) : unique[i] = PushUniquePath(unique[i - 1], paths[i])
<1> DEFINE n == Len(paths)
           result == CHOOSE unique : unique = [i \in 0 .. n |->
             IF i = 0 THEN << >> ELSE PushUniquePath(unique[i - 1], paths[i])]
<1>1. UniqueUpTo(paths) = result
  BY DEF UniqueUpTo
<1>2. result = [i \in 0 .. n |->
                 IF i = 0 THEN << >> ELSE PushUniquePath(result[i - 1], paths[i])]
  BY UniqueEnds
<1> HIDE DEF result
<1>3. \A i \in 0 .. n :
        result[i] = IF i = 0 THEN << >> ELSE PushUniquePath(result[i - 1], paths[i])
  BY <1>2
<1>4. 0 \in 0 .. n /\ \A i \in 1 .. n : i \in 0 .. n /\ i # 0
  OBVIOUS
<1>5. result[0] = << >> /\ \A i \in 1 .. n : result[i] = PushUniquePath(result[i - 1], paths[i])
  BY <1>3, <1>4
<1> QED BY <1>1, <1>5

LEMMA PushUniquePathAdds ==
  ASSUME NEW S, NEW paths \in Seq(S), NEW path \in S
  PROVE  /\ PushUniquePath(paths, path) \in Seq(S)
         /\ Range(PushUniquePath(paths, path)) = Range(paths) \cup {path}
<1>1. CASE Contains(paths, path)
  <2>1. PICK i \in 1 .. Len(paths) : paths[i] = path
    BY <1>1 DEF Contains
  <2>2. path \in Range(paths)
    BY <2>1 DEF Range
  <2> QED BY <1>1, <2>2 DEF PushUniquePath
<1>2. CASE ~ Contains(paths, path)
  <2> DEFINE pushed == Append(paths, path)
  <2>1. /\ pushed \in Seq(S) /\ Len(pushed) = Len(paths) + 1 /\ Len(paths) \in Nat
        /\ \A i \in 1 .. Len(paths) : pushed[i] = paths[i]
        /\ pushed[Len(paths) + 1] = path
    OBVIOUS
  <2>2. DOMAIN pushed = 1 .. Len(paths) + 1 /\ DOMAIN paths = 1 .. Len(paths)
    BY <2>1
  <2> HIDE DEF pushed
  <2>3. \A i \in 1 .. Len(paths) + 1 : i \in 1 .. Len(paths) \/ i = Len(paths) + 1
    BY <2>1
  <2>4. Range(pushed) \subseteq Range(paths) \cup {path}
    BY <2>1, <2>2, <2>3 DEF Range
  <2>5. \A i \in 1 .. Len(paths) : i \in 1 .. Len(paths) + 1
    BY <2>1
  <2>6. Len(paths) + 1 \in 1 .. Len(paths) + 1
    BY <2>1
  <2>7. Range(paths) \cup {path} \subseteq Range(pushed)
    BY <2>1, <2>2, <2>5, <2>6 DEF Range
  <2>8. PushUniquePath(paths, path) = pushed
    BY <1>2 DEF PushUniquePath, pushed
  <2> QED BY <2>1, <2>4, <2>7, <2>8
<1> QED BY <1>1, <1>2

LEMMA UniqueHasAll ==
  ASSUME NEW S, NEW paths \in Seq(S)
  PROVE  LET unique == UniqueUpTo(paths)[Len(paths)] IN
         unique \in Seq(S) /\ Range(unique) = Range(paths)
<1> DEFINE u == UniqueUpTo(paths)
           n == Len(paths)
           Good(i) == u[i] \in Seq(S) /\ Range(u[i]) = {paths[j] : j \in 1 .. i}
           Bad == {i \in 0 .. n : ~ Good(i)}
<1>1. n \in Nat /\ DOMAIN paths = 1 .. n /\ \A i \in 1 .. n : paths[i] \in S
  OBVIOUS
<1>2. u[0] = << >> /\ \A i \in 1 .. n : u[i] = PushUniquePath(u[i - 1], paths[i])
  BY <1>1, UniqueUpToFollows
<1> HIDE DEF u
<1>3. Bad = {}
  <2> SUFFICES ASSUME Bad # {} PROVE FALSE
    OBVIOUS
  <2>1. PICK i \in Bad : \A j \in Bad : i <= j
    <3>1. Bad \in SUBSET Nat
      BY <1>1
    <3> HIDE DEF Bad
    <3> QED BY <3>1, Smallest
  <2>2. i \in 0 .. n /\ ~ Good(i)
    BY <2>1
  <2>3. CASE i = 0
    <3>1. u[0] \in Seq(S)
      BY <1>2
    <3>2. Range(u[0]) = {}
      BY <1>2 DEF Range
    <3>3. {paths[j] : j \in 1 .. 0} = {}
      OBVIOUS
    <3> QED BY <2>2, <2>3, <3>1, <3>2, <3>3
  <2>4. CASE i # 0
    <3>1. i - 1 \in 0 .. n /\ ~ (i <= i - 1) /\ i \in 1 .. n
      BY <1>1, <2>2, <2>4
    <3>2. Good(i - 1)
      BY <2>1, <3>1
    <3> DEFINE before == u[i - 1]
    <3>3. before \in Seq(S) /\ Range(before) = {paths[j] : j \in 1 .. i - 1}
      BY <3>2
    <3> DEFINE path == paths[i]
               after  == PushUniquePath(before, path)
    <3>4. path \in S /\ u[i] = after
      BY <1>1, <1>2, <3>1
    <3> HIDE DEF before, path
    <3>5. after \in Seq(S) /\ Range(after) = Range(before) \cup {path}
      <4>1. before \in Seq(S) /\ path \in S
        BY <3>3, <3>4
      <4> HIDE DEF after, Good, Bad, n
      <4>2. PushUniquePath(before, path) \in Seq(S)
        BY <4>1, PushUniquePathAdds
      <4>3. Range(PushUniquePath(before, path)) = Range(before) \cup {path}
        BY <4>1, PushUniquePathAdds
      <4> QED BY <4>2, <4>3 DEF after
    <3>6. u[i] \in Seq(S) /\ Range(u[i]) = Range(before) \cup {paths[i]}
      BY <3>4, <3>5 DEF path
    <3>7. \A j : j \in 1 .. i <=> (j \in 1 .. i - 1 \/ j = i)
      BY <3>1, <1>1
    <3>8. {paths[j] : j \in 1 .. i} = {paths[j] : j \in 1 .. i - 1} \cup {paths[i]}
      BY <3>7
    <3>9. Range(u[i]) = {paths[j] : j \in 1 .. i}
      BY <3>3, <3>6, <3>8, Zenon
    <3> QED BY <2>2, <3>6, <3>9
  <2> QED BY <2>3, <2>4
<1>4. Good(n)
  <2>1. n \in 0 .. n
    BY <1>1
  <2>2. n \notin Bad
    BY <1>3
  <2> QED BY <2>1, <2>2
<1>5. Range(paths) = {paths[j] : j \in 1 .. n}
  BY <1>1 DEF Range
<1>6. u[n] \in Seq(S) /\ Range(u[n]) = Range(paths)
  BY <1>4, <1>5, Zenon
<1> QED BY <1>6 DEF u

-----------------------------------------------------------------------------
(***************************************************************************)
(* The inductive invariant: a directory has one file of a name, and a root *)
(* is where the source file lies, the directory around its packages, or a  *)
(* path that is searched.                                                  *)
(***************************************************************************)
OneOfAName == \A f, g \in files : f.dir = g.dir /\ f.name = g.name => f = g

RootsAreGiven ==
  /\ roots \in Seq(Dirs)
  /\ Range(EnclosingRoot(sourceDir)) \subseteq Range(roots)
  /\ \A i \in DOMAIN roots :
       roots[i] \in {sourceDir} \cup Range(EnclosingRoot(sourceDir)) \cup UNION {Range(s) : s \in SearchPaths}

RInv ==
  /\ files \subseteq Files
  /\ sourceDir \in SourceDirs
  /\ OneOfAName
  /\ RootsAreGiven

LEMMA RangeOfConcat ==
  ASSUME NEW S, NEW s \in Seq(S), NEW t \in Seq(S)
  PROVE  Range(s \o t) = Range(s) \cup Range(t)
<1>1. /\ Len(s) \in Nat /\ Len(t) \in Nat /\ Len(s \o t) = Len(s) + Len(t)
      /\ DOMAIN s = 1 .. Len(s) /\ DOMAIN t = 1 .. Len(t) /\ DOMAIN (s \o t) = 1 .. Len(s) + Len(t)
      /\ \A i \in 1 .. Len(s) : (s \o t)[i] = s[i]
      /\ \A i \in 1 .. Len(t) : (s \o t)[Len(s) + i] = t[i]
  OBVIOUS
<1> DEFINE u == s \o t
           n == Len(s)
           m == Len(t)
<1> HIDE DEF u, n, m
<1>2. /\ n \in Nat /\ m \in Nat /\ DOMAIN s = 1 .. n /\ DOMAIN t = 1 .. m /\ DOMAIN u = 1 .. n + m
      /\ \A i \in 1 .. n : u[i] = s[i]
      /\ \A i \in 1 .. m : u[n + i] = t[i]
  BY <1>1 DEF u, n, m
<1>3. ASSUME NEW i \in 1 .. n + m
      PROVE  u[i] \in Range(s) \cup Range(t)
  <2>1. CASE i \in 1 .. n
    BY <1>2, <2>1 DEF Range
  <2>2. CASE i \notin 1 .. n
    <3>1. i - n \in 1 .. m /\ n + (i - n) = i
      BY <1>2, <2>2
    <3> DEFINE j == i - n
    <3>2. j \in 1 .. m /\ n + j = i
      BY <3>1
    <3> HIDE DEF j
    <3>3. u[i] = t[j] /\ j \in DOMAIN t
      BY <1>2, <3>2
    <3> QED BY <3>3 DEF Range
  <2> QED BY <2>1, <2>2
<1>4. \A i \in 1 .. n : s[i] \in Range(u)
  <2>1. \A i \in 1 .. n : i \in 1 .. n + m
    BY <1>2
  <2> QED BY <1>2, <2>1 DEF Range
<1>5. \A i \in 1 .. m : t[i] \in Range(u)
  <2> TAKE i \in 1 .. m
  <2>1. n + i \in DOMAIN u
    BY <1>2
  <2>2. t[i] = u[n + i]
    BY <1>2
  <2> QED BY <2>1, <2>2 DEF Range
<1>6. Range(u) = Range(s) \cup Range(t)
  BY <1>2, <1>3, <1>4, <1>5 DEF Range
<1> QED BY <1>6 DEF u

\* The last plain segment of a directory that begins with one.
LEMMA EnclosingRootIs ==
  ASSUME NEW dir \in SourceDirs
  PROVE  \E k \in 1 .. Len(dir) :
           /\ dir[k][1] = "dir" /\ \A i \in k + 1 .. Len(dir) : dir[i][1] # "dir"
           /\ EnclosingRoot(dir) = IF k = Len(dir) THEN << >> ELSE <<SubSeq(dir, 1, k)>>
<1>1. dir \in Seq(Segments) /\ dir # << >> /\ dir[1][1] = "dir"
  BY ResolverAssumption DEF Dirs
<1> DEFINE n == Len(dir)
           plain == {i \in DOMAIN dir : dir[i][1] = "dir"}
           last == CHOOSE i \in plain : \A j \in plain : j <= i
<1>2. n \in Nat /\ n # 0 /\ DOMAIN dir = 1 .. n
  BY <1>1
<1>3. \E k \in plain : \A j \in plain : j <= k
  <2> DEFINE Above == {i \in 1 .. n : \A j \in plain : j <= i}
  <2>1. PICK k \in Above : \A i \in Above : k <= i
    <3>1. n \in Above
      BY <1>2
    <3>2. Above \in SUBSET Nat /\ Above # {}
      BY <1>2, <3>1
    <3> HIDE DEF Above
    <3> QED BY <3>2, Smallest
  <2>2. k \in plain
    <3> SUFFICES ASSUME k \notin plain PROVE FALSE
      OBVIOUS
    <3>1. k # 1 /\ k \in 1 .. n
      BY <1>1, <1>2
    <3>2. k - 1 \in 1 .. n
      BY <1>2, <3>1
    <3>3. ASSUME NEW j \in plain
          PROVE  j <= k - 1
      <4>1. j <= k /\ j # k
        BY <2>1
      <4>2. j \in Nat
        BY <1>2
      <4> HIDE DEF plain
      <4> QED BY <1>2, <3>1, <4>1, <4>2
    <3>4. k - 1 \in Above
      BY <3>2, <3>3
    <3>5. ~ (k <= k - 1)
      BY <1>2
    <3> QED BY <2>1, <3>4, <3>5
  <2>3. \A j \in plain : j <= k
    BY <2>1
  <2> QED BY <2>2, <2>3
<1>4. last \in plain /\ \A j \in plain : j <= last
  <2> HIDE DEF plain
  <2> QED BY <1>3
<1>5. EnclosingRoot(dir) = IF last = Len(dir) THEN << >> ELSE <<SubSeq(dir, 1, last)>>
  BY DEF EnclosingRoot
<1> HIDE DEF last
<1>6. last \in 1 .. Len(dir) /\ dir[last][1] = "dir"
  BY <1>2, <1>4
<1>7. \A i \in last + 1 .. Len(dir) : dir[i][1] # "dir"
  <2> SUFFICES ASSUME NEW i \in last + 1 .. Len(dir), dir[i][1] = "dir" PROVE FALSE
    OBVIOUS
  <2>1. i \in plain
    BY <1>2, <1>6
  <2> QED BY <1>2, <1>4, <1>6, <2>1
<1> QED BY <1>5, <1>6, <1>7

LEMMA RootsGiven ==
  ASSUME NEW searchRoots \in SearchPaths, sourceDir \in SourceDirs,
         roots = EffectiveRoots(sourceDir, searchRoots)
  PROVE  RootsAreGiven
<1> DEFINE around == EnclosingRoot(sourceDir)
           paths == <<sourceDir>> \o around \o searchRoots
<1>1. sourceDir \in Dirs /\ searchRoots \in Seq(Dirs)
  BY ResolverAssumption
<1>2. around \in Seq(Dirs)
  <2>1. PICK k \in 1 .. Len(sourceDir) :
          around = IF k = Len(sourceDir) THEN << >> ELSE <<SubSeq(sourceDir, 1, k)>>
    BY EnclosingRootIs
  <2>2. SubSeq(sourceDir, 1, k) \in Seq(Segments) /\ Len(SubSeq(sourceDir, 1, k)) = k
    BY <1>1 DEF Dirs
  <2>3. SubSeq(sourceDir, 1, k) \in Dirs
    BY <2>2 DEF Dirs
  <2> QED BY <2>1, <2>3
<1> HIDE DEF around
<1>3. <<sourceDir>> \in Seq(Dirs) /\ Range(<<sourceDir>>) = {sourceDir}
  BY <1>1 DEF Range
<1>4. <<sourceDir>> \o around \in Seq(Dirs) /\ paths \in Seq(Dirs)
  BY <1>1, <1>2, <1>3
<1>5. Range(paths) = {sourceDir} \cup Range(around) \cup Range(searchRoots)
  <2>1. Range(<<sourceDir>> \o around) = {sourceDir} \cup Range(around)
    <3> DEFINE own == <<sourceDir>>
    <3>1. own \in Seq(Dirs) /\ Range(own) = {sourceDir}
      BY <1>3
    <3> HIDE DEF own
    <3>2. Range(own \o around) = Range(own) \cup Range(around)
      BY <1>2, <3>1, RangeOfConcat
    <3> QED BY <3>1, <3>2 DEF own
  <2> DEFINE start == <<sourceDir>> \o around
  <2>2. start \in Seq(Dirs)
    BY <1>4
  <2> HIDE DEF start
  <2>3. Range(start \o searchRoots) = Range(start) \cup Range(searchRoots)
    BY <1>1, <2>2, RangeOfConcat
  <2> QED BY <2>1, <2>3 DEF start
<1>6. roots = UniqueUpTo(paths)[Len(paths)]
  BY DEF EffectiveRoots, around
<1> HIDE DEF paths
<1>7. roots \in Seq(Dirs) /\ Range(roots) = Range(paths)
  BY <1>4, <1>6, UniqueHasAll
<1>8. \A i \in DOMAIN roots : roots[i] \in Range(roots)
  BY DEF Range
<1> QED BY <1>5, <1>7, <1>8 DEF RootsAreGiven, around

\* The files there are keep the invariant, and so do the roots.
LEMMA RInvHolds == Spec => []RInv
<1>1. Init => RInv
  <2> SUFFICES ASSUME Init PROVE RInv
    OBVIOUS
  <2>1. PICK searchRoots \in SearchPaths : roots = EffectiveRoots(sourceDir, searchRoots)
    BY DEF Init
  <2>2. sourceDir \in SourceDirs /\ files = {}
    BY DEF Init
  <2>3. RootsAreGiven
    BY <2>1, <2>2, RootsGiven
  <2> QED BY <2>2, <2>3 DEF RInv, OneOfAName
<1>2. RInv /\ [Next]_vars => RInv'
  <2> SUFFICES ASSUME RInv, [Next]_vars PROVE RInv'
    OBVIOUS
  <2>1. CASE UNCHANGED vars
    BY <2>1 DEF vars, RInv, OneOfAName, RootsAreGiven
  <2>2. ASSUME NEW f \in Files, FileAppears(f)
        PROVE  RInv'
    <3>1. UNCHANGED <<sourceDir, roots>> /\ files' = files \cup {f}
      BY <2>2 DEF FileAppears
    <3>2. RootsAreGiven' /\ (sourceDir \in SourceDirs)' /\ (files \subseteq Files)'
      BY <3>1 DEF RInv, RootsAreGiven
    <3>3. ASSUME NEW g \in files, g.dir = f.dir, g.name = f.name
          PROVE  FALSE
      <4>1. /\ g \in [dir : Dirs, name : STRING, kind : {"function", "classdef"}]
        BY ResolverAssumption DEF RInv
      <4>2. g \in AnyFile(f.dir, f.name)
        BY <3>3, <4>1 DEF AnyFile, FunctionFile, ClassFile, File
      <4> QED BY <2>2, <4>2 DEF FileAppears
    <3>4. OneOfAName'
      BY <3>1, <3>3 DEF RInv, OneOfAName
    <3> QED BY <3>2, <3>4 DEF RInv
  <2>3. ASSUME NEW f \in files, FileGoes(f)
        PROVE  RInv'
    BY <2>3 DEF FileGoes, RInv, OneOfAName, RootsAreGiven
  <2> QED BY <2>1, <2>2, <2>3 DEF Next
<1> QED BY <1>1, <1>2, PTL DEF Spec

-----------------------------------------------------------------------------
(***************************************************************************)
(* What the places hold.                                                   *)
(***************************************************************************)
LookupNames == Seq(STRING) \ {<< >>}
Matches == [as : {"function", "class"}, name : Seq(STRING), file : files]

AtMostOne(place) == \A m, n \in place : m = n

LEMMA FrontOfName ==
  ASSUME NEW name \in LookupNames, Len(name) # 1
  PROVE  /\ Front(name) \in LookupNames /\ Len(Front(name)) = Len(name) - 1
         /\ Len(name) \in Nat /\ Len(name) > 1
<1>1. name \in Seq(STRING) /\ Len(name) \in Nat /\ Len(name) > 1
  BY DEF LookupNames
<1>2. Front(name) \in Seq(STRING) /\ Len(Front(name)) = Len(name) - 1
  BY <1>1 DEF Front
<1>3. Front(name) # << >>
  BY <1>1, <1>2
<1> QED BY <1>1, <1>2, <1>3 DEF LookupNames

LEMMA FilesOfDir ==
  ASSUME NEW dir, NEW name, OneOfAName
  PROVE  /\ AtMostOne(AnyFile(dir, name)) /\ AtMostOne(FunctionFile(dir, name))
         /\ AtMostOne(ClassFile(dir, name))
         /\ \A f \in AnyFile(dir, name) : f \in files /\ f.dir = dir /\ f.name = name
         /\ FunctionFile(dir, name) \subseteq AnyFile(dir, name)
         /\ ClassFile(dir, name) \subseteq AnyFile(dir, name)
<1>1. \A f \in AnyFile(dir, name) : f \in files /\ f.dir = dir /\ f.name = name
  BY DEF AnyFile, FunctionFile, ClassFile, File
<1>2. AtMostOne(AnyFile(dir, name))
  BY <1>1 DEF AtMostOne, OneOfAName
<1> QED BY <1>1, <1>2 DEF AtMostOne, AnyFile

LEMMA MatchesOfFiles ==
  ASSUME NEW as, NEW name, NEW found, AtMostOne(found)
  PROVE  /\ AtMostOne(Match(as, name, found))
         /\ \A m \in Match(as, name, found) : m.as = as /\ m.name = name /\ m.file \in found
         /\ \A f \in found : Match(as, name, found) # {}
         /\ as \in {"function", "class"} /\ name \in Seq(STRING) /\ found \subseteq files
              => Match(as, name, found) \subseteq Matches
<1>1. ASSUME NEW m \in Match(as, name, found)
      PROVE  /\ m.as = as /\ m.name = name /\ m.file \in found
             /\ m = [as |-> as, name |-> name, file |-> m.file]
  <2>1. PICK f \in found : m = [as |-> as, name |-> name, file |-> f]
    BY DEF Match
  <2> QED BY <2>1
<1>2. AtMostOne(Match(as, name, found))
  BY <1>1 DEF AtMostOne
<1>3. \A f \in found : [as |-> as, name |-> name, file |-> f] \in Match(as, name, found)
  BY DEF Match
<1>4. ASSUME as \in {"function", "class"}, name \in Seq(STRING), found \subseteq files
      PROVE  Match(as, name, found) \subseteq Matches
  <2> SUFFICES ASSUME NEW m \in Match(as, name, found) PROVE m \in Matches
    OBVIOUS
  <2>1. m.file \in files /\ m = [as |-> as, name |-> name, file |-> m.file]
    BY <1>1, <1>4
  <2> DEFINE f == m.file
  <2> HIDE DEF f
  <2>2. [as |-> as, name |-> name, file |-> f] \in Matches
    BY <1>4, <2>1 DEF Matches, f
  <2> QED BY <2>1, <2>2 DEF f
<1> QED BY <1>1, <1>2, <1>3, <1>4

\* A function found for a name, in a directory.
FunctionOf(place, name, dirs) ==
  /\ AtMostOne(place) /\ place \subseteq Matches
  /\ \A m \in place : m.as = "function" /\ m.name = name /\ m.file.dir \in dirs

\* A class found for a name, in a directory.
ClassIn(place, name, dirs) ==
  /\ AtMostOne(place) /\ place \subseteq Matches
  /\ \A m \in place : m.as = "class" /\ m.name = name /\ m.file.dir \in dirs

FolderDir(name, r) == Append(PackageDir(r, name), Class(Last(name)))

LEMMA PrivateHolds ==
  ASSUME OneOfAName, NEW name \in LookupNames
  PROVE  FunctionOf(PrivateFunction(name), name, {Append(sourceDir, Private)})
<1> DEFINE found == FunctionFile(Append(sourceDir, Private), name[1])
<1>1. AtMostOne(found) /\ \A f \in found : f \in files /\ f.dir = Append(sourceDir, Private)
  BY FilesOfDir
<1>2. PrivateFunction(name) = IF Len(name) > 1 THEN {} ELSE Function(name, found)
  BY DEF PrivateFunction
<1> HIDE DEF found
<1>3. FunctionOf(Function(name, found), name, {Append(sourceDir, Private)})
  BY <1>1, MatchesOfFiles DEF Function, FunctionOf, LookupNames
<1>4. FunctionOf({}, name, {Append(sourceDir, Private)})
  BY DEF FunctionOf, AtMostOne
<1> QED BY <1>2, <1>3, <1>4

LEMMA FolderHolds ==
  ASSUME OneOfAName, NEW name \in LookupNames, NEW r
  PROVE  ClassIn(FolderClass(name, r), name, {FolderDir(name, r)})
<1> DEFINE found == AnyFile(FolderDir(name, r), Last(name))
<1>1. AtMostOne(found) /\ \A f \in found : f \in files /\ f.dir = FolderDir(name, r)
  BY FilesOfDir
<1>2. FolderClass(name, r) = ClassOf(name, found)
  BY DEF FolderClass, FolderDir
<1> HIDE DEF found
<1>3. ClassIn(ClassOf(name, found), name, {FolderDir(name, r)})
  BY <1>1, MatchesOfFiles DEF ClassOf, ClassIn, LookupNames
<1> QED BY <1>2, <1>3

LEMMA PlainClassHolds ==
  ASSUME OneOfAName, NEW name \in LookupNames, NEW r
  PROVE  ClassIn(PlainClass(name, r), name, {PackageDir(r, name)})
<1> DEFINE found == ClassFile(PackageDir(r, name), Last(name))
<1>1. AtMostOne(found) /\ \A f \in found : f \in files /\ f.dir = PackageDir(r, name)
  BY FilesOfDir
<1>2. PlainClass(name, r) = ClassOf(name, found)
  BY DEF PlainClass
<1> HIDE DEF found
<1>3. ClassIn(ClassOf(name, found), name, {PackageDir(r, name)})
  BY <1>1, MatchesOfFiles DEF ClassOf, ClassIn, LookupNames
<1> QED BY <1>2, <1>3

LEMMA PackageFunctionHolds ==
  ASSUME OneOfAName, NEW name \in LookupNames, NEW r
  PROVE  /\ FunctionOf(PackageFunction(name, r), name, {PackageDir(r, name)})
         /\ Len(name) = 1 => PackageFunction(name, r) = {}
<1> DEFINE found == FunctionFile(PackageDir(r, name), Last(name))
<1>1. AtMostOne(found) /\ \A f \in found : f \in files /\ f.dir = PackageDir(r, name)
  BY FilesOfDir
<1>2. PackageFunction(name, r) = IF Len(name) = 1 THEN {} ELSE Function(name, found)
  BY DEF PackageFunction
<1> HIDE DEF found
<1>3. FunctionOf(Function(name, found), name, {PackageDir(r, name)})
  BY <1>1, MatchesOfFiles DEF Function, FunctionOf, LookupNames
<1>4. FunctionOf({}, name, {PackageDir(r, name)})
  BY DEF FunctionOf, AtMostOne
<1> QED BY <1>2, <1>3, <1>4

LEMMA PlainFunctionHolds ==
  ASSUME OneOfAName, NEW name \in LookupNames, NEW r
  PROVE  FunctionOf(PlainFunction(name, r), name, {r})
<1> DEFINE found == FunctionFile(r, name[1])
<1>1. AtMostOne(found) /\ \A f \in found : f \in files /\ f.dir = r
  BY FilesOfDir
<1>2. PlainFunction(name, r) = IF Len(name) > 1 THEN {} ELSE Function(name, found)
  BY DEF PlainFunction
<1> HIDE DEF found
<1>3. FunctionOf(Function(name, found), name, {r})
  BY <1>1, MatchesOfFiles DEF Function, FunctionOf, LookupNames
<1>4. FunctionOf({}, name, {r})
  BY DEF FunctionOf, AtMostOne
<1> QED BY <1>2, <1>3, <1>4

\* The class whose method the name may be.
LEMMA StaticHolds ==
  ASSUME OneOfAName, NEW name \in LookupNames, NEW r
  PROVE  /\ Len(name) = 1 => StaticClass(name, r) = {}
         /\ Len(name) # 1 =>
              LET class == Front(name) IN
              /\ StaticClass(name, r) = FirstIn(<<FolderClass(class, r), PlainClass(class, r)>>)
              /\ ClassIn(StaticClass(name, r), class, {FolderDir(class, r), PackageDir(r, class)})
<1>1. CASE Len(name) = 1
  BY <1>1 DEF StaticClass
<1>2. CASE Len(name) # 1
  <2> DEFINE class == Front(name)
             folder == FolderClass(class, r)
             plain == PlainClass(class, r)
  <2>1. class \in LookupNames
    BY <1>2, FrontOfName
  <2>2. StaticClass(name, r) = FirstIn(<<folder, plain>>)
    BY <1>2 DEF StaticClass
  <2> HIDE DEF class
  <2>3. ClassIn(folder, class, {FolderDir(class, r)}) /\ ClassIn(plain, class, {PackageDir(r, class)})
    BY <2>1, FolderHolds, PlainClassHolds
  <2> HIDE DEF folder, plain
  <2>4. FirstIn(<<folder, plain>>) = folder \/ FirstIn(<<folder, plain>>) = plain
    BY FirstOfTwo
  <2>5. ClassIn(StaticClass(name, r), class, {FolderDir(class, r), PackageDir(r, class)})
    BY <2>2, <2>3, <2>4 DEF ClassIn
  <2> QED BY <1>2, <2>2, <2>5 DEF class, folder, plain
<1> QED BY <1>1, <1>2

-----------------------------------------------------------------------------
(***************************************************************************)
(* The lookups go through the roots in order.                              *)
(***************************************************************************)
CallableIn(name, r) ==
  FirstIn(<<FolderClass(name, r), PackageFunction(name, r), StaticClass(name, r),
            PlainFunction(name, r), PlainClass(name, r)>>)
FunctionIn(name, r) == FirstIn(<<PackageFunction(name, r), PlainFunction(name, r)>>)
ClassOfRoot(name, r) == FirstIn(<<FolderClass(name, r), PlainClass(name, r)>>)

LEMMA CallableOfRoots ==
  ASSUME RootsAreGiven, NEW name, NEW m \in ResolveCallable(name)
  PROVE  \/ m \in PrivateFunction(name)
         \/ /\ PrivateFunction(name) = {}
            /\ \E i \in DOMAIN roots :
                 /\ m \in CallableIn(name, roots[i])
                 /\ \A j \in 1 .. i - 1 : CallableIn(name, roots[j]) = {}
<1> DEFINE n == Len(roots)
           places == [i \in DOMAIN roots |-> CallableIn(name, roots[i])]
<1>1. n \in Nat /\ DOMAIN roots = 1 .. n
  BY DEF RootsAreGiven
<1>2. ResolveCallable(name) = FirstIn(<<PrivateFunction(name), FirstIn(places)>>)
  BY DEF ResolveCallable, FirstInRoots, CallableIn
<1>3. DOMAIN places = 1 .. n /\ \A i \in 1 .. n : places[i] = CallableIn(name, roots[i])
  BY <1>1
<1> HIDE DEF places, n
<1>4. ResolveCallable(name) = IF PrivateFunction(name) # {} THEN PrivateFunction(name)
                              ELSE FirstIn(places)
  BY <1>2, FirstOfTwo
<1>5. CASE PrivateFunction(name) # {}
  BY <1>4, <1>5
<1>6. CASE PrivateFunction(name) = {}
  <2>1. m \in FirstIn(places)
    BY <1>4, <1>6
  <2>2. PICK i \in 1 .. n : m \in places[i] /\ \A j \in 1 .. i - 1 : places[j] = {}
    BY <1>1, <1>3, <2>1, FirstIsOf
  <2>3. \A j \in 1 .. i - 1 : j \in 1 .. n
    BY <1>1
  <2>4. /\ m \in CallableIn(name, roots[i])
        /\ \A j \in 1 .. i - 1 : CallableIn(name, roots[j]) = {}
    BY <1>3, <2>2, <2>3
  <2> QED BY <1>1, <1>6, <2>4
<1> QED BY <1>5, <1>6

LEMMA FunctionOfRoots ==
  ASSUME RootsAreGiven, NEW name, PrivateFunction(name) = {}, NEW i \in DOMAIN roots,
         FunctionIn(name, roots[i]) # {},
         \A j \in 1 .. i - 1 : FunctionIn(name, roots[j]) = {}
  PROVE  ResolveFunction(name) = FunctionIn(name, roots[i])
<1> DEFINE n == Len(roots)
           places == [k \in DOMAIN roots |-> FunctionIn(name, roots[k])]
<1>1. n \in Nat /\ DOMAIN roots = 1 .. n
  BY DEF RootsAreGiven
<1>2. ResolveFunction(name) = FirstIn(<<PrivateFunction(name), FirstIn(places)>>)
  BY DEF ResolveFunction, FirstInRoots, FunctionIn
<1>3. DOMAIN places = 1 .. n /\ \A k \in 1 .. n : places[k] = FunctionIn(name, roots[k])
  BY <1>1
<1> HIDE DEF places, n
<1>4. ResolveFunction(name) = FirstIn(places)
  BY <1>2, FirstOfTwo
<1>5. \A j \in 1 .. i - 1 : j \in 1 .. n
  BY <1>1
<1>6. FirstIn(places) = places[i]
  <2>1. i \in 1 .. n /\ places[i] # {} /\ \A j \in 1 .. i - 1 : places[j] = {}
    BY <1>1, <1>3, <1>5
  <2> QED BY <1>1, <1>3, <2>1, FirstIs
<1> QED BY <1>1, <1>3, <1>4, <1>6

LEMMA ClassOfRoots ==
  ASSUME RootsAreGiven, NEW name, NEW i \in DOMAIN roots,
         ClassOfRoot(name, roots[i]) # {},
         \A j \in 1 .. i - 1 : ClassOfRoot(name, roots[j]) = {}
  PROVE  ResolveClass(name) = ClassOfRoot(name, roots[i])
<1> DEFINE n == Len(roots)
           places == [k \in DOMAIN roots |-> ClassOfRoot(name, roots[k])]
<1>1. n \in Nat /\ DOMAIN roots = 1 .. n
  BY DEF RootsAreGiven
<1>2. ResolveClass(name) = FirstIn(places)
  BY DEF ResolveClass, FirstInRoots, ClassOfRoot
<1>3. DOMAIN places = 1 .. n /\ \A k \in 1 .. n : places[k] = ClassOfRoot(name, roots[k])
  BY <1>1
<1> HIDE DEF places, n
<1>4. \A j \in 1 .. i - 1 : j \in 1 .. n
  BY <1>1
<1>5. i \in 1 .. n /\ places[i] # {} /\ \A j \in 1 .. i - 1 : places[j] = {}
  BY <1>1, <1>3, <1>4
<1>6. FirstIn(places) = places[i]
  BY <1>1, <1>3, <1>5, FirstIs
<1> QED BY <1>1, <1>2, <1>3, <1>6

\* A root where a call finds nothing has nothing of the name, nor a class that
\* the name could be a method of.
LEMMA NothingInRoot ==
  ASSUME NEW name, NEW r, CallableIn(name, r) = {}
  PROVE  /\ FolderClass(name, r) = {} /\ PackageFunction(name, r) = {}
         /\ StaticClass(name, r) = {} /\ PlainFunction(name, r) = {}
         /\ PlainClass(name, r) = {}
         /\ FunctionIn(name, r) = {} /\ ClassOfRoot(name, r) = {}
<1> DEFINE a == FolderClass(name, r)
           b == PackageFunction(name, r)
           c == StaticClass(name, r)
           d == PlainFunction(name, r)
           e == PlainClass(name, r)
<1>1. FirstIn(<<a, b, c, d, e>>) = {}
  BY DEF CallableIn
<1>2. FunctionIn(name, r) = FirstIn(<<b, d>>) /\ ClassOfRoot(name, r) = FirstIn(<<a, e>>)
  BY DEF FunctionIn, ClassOfRoot
<1> HIDE DEF a, b, c, d, e
<1>3. a = {} /\ b = {} /\ c = {} /\ d = {} /\ e = {}
  BY <1>1, FirstOfFive
<1>4. FunctionIn(name, r) = {} /\ ClassOfRoot(name, r) = {}
  BY <1>2, <1>3, FirstOfTwo
<1> QED BY <1>3, <1>4 DEF a, b, c, d, e

\* Where in a root a call finds what it means.
LEMMA SomethingInRoot ==
  ASSUME NEW name, NEW r, NEW m \in CallableIn(name, r)
  PROVE  \/ m \in FolderClass(name, r)
         \/ FolderClass(name, r) = {} /\ m \in PackageFunction(name, r)
         \/ m \in StaticClass(name, r)
         \/ PackageFunction(name, r) = {} /\ m \in PlainFunction(name, r)
         \/ FolderClass(name, r) = {} /\ m \in PlainClass(name, r)
<1> DEFINE a == FolderClass(name, r)
           b == PackageFunction(name, r)
           c == StaticClass(name, r)
           d == PlainFunction(name, r)
           e == PlainClass(name, r)
<1>1. m \in FirstIn(<<a, b, c, d, e>>)
  BY DEF CallableIn
<1> HIDE DEF a, b, c, d, e
<1>2. FirstIn(<<a, b, c, d, e>>) =
        IF a # {} THEN a ELSE IF b # {} THEN b ELSE IF c # {} THEN c ELSE IF d # {} THEN d ELSE e
  BY FirstOfFive
<1>3. \/ m \in a
      \/ a = {} /\ m \in b
      \/ m \in c
      \/ b = {} /\ m \in d
      \/ a = {} /\ m \in e
  BY <1>1, <1>2
<1> QED BY <1>3 DEF a, b, c, d, e

-----------------------------------------------------------------------------
(***************************************************************************)
(* The theorems.                                                           *)
(***************************************************************************)

\* What a call means.
LEMMA CallMeans ==
  ASSUME RInv, NEW name \in Names, NEW m \in ResolveCallable(name)
  PROVE  /\ m.as = "function" => ResolveFunction(name) = {m}
         /\ m.as = "class" => ResolveClass(m.name) = {m}
<1>1. OneOfAName /\ RootsAreGiven /\ name \in LookupNames
  BY ResolverAssumption DEF RInv, LookupNames
<1>2. CASE m \in PrivateFunction(name)
  <2> DEFINE place == PrivateFunction(name)
  <2>1. place = {m} /\ m.as = "function"
    BY <1>1, <1>2, PrivateHolds DEF FunctionOf, AtMostOne
  <2>2. ResolveFunction(name) = place
    BY <1>2, FirstOfTwo DEF ResolveFunction
  <2> QED BY <2>1, <2>2
<1>3. ASSUME PrivateFunction(name) = {}, NEW i \in DOMAIN roots,
             m \in CallableIn(name, roots[i]),
             \A j \in 1 .. i - 1 : CallableIn(name, roots[j]) = {}
      PROVE  /\ m.as = "function" => ResolveFunction(name) = {m}
             /\ m.as = "class" => ResolveClass(m.name) = {m}
  <2> DEFINE r == roots[i]
             folder == FolderClass(name, r)
             package == PackageFunction(name, r)
             static == StaticClass(name, r)
             plain == PlainFunction(name, r)
             class == PlainClass(name, r)
  <2>1. \A j \in 1 .. i - 1 :
          /\ FunctionIn(name, roots[j]) = {} /\ ClassOfRoot(name, roots[j]) = {}
          /\ StaticClass(name, roots[j]) = {}
    BY <1>3, NothingInRoot
  <2>2. ASSUME FunctionIn(name, r) = {m}, m.as = "function"
        PROVE  /\ m.as = "function" => ResolveFunction(name) = {m}
               /\ m.as = "class" => ResolveClass(m.name) = {m}
    <3>1. ResolveFunction(name) = FunctionIn(name, r)
      BY <1>1, <1>3, <2>1, <2>2, FunctionOfRoots
    <3> QED BY <2>2, <3>1
  <2>3. ASSUME NEW n, ClassOfRoot(n, r) = {m}, m.as = "class", m.name = n,
               \A j \in 1 .. i - 1 : ClassOfRoot(n, roots[j]) = {}
        PROVE  /\ m.as = "function" => ResolveFunction(name) = {m}
               /\ m.as = "class" => ResolveClass(m.name) = {m}
    <3>1. ResolveClass(n) = ClassOfRoot(n, r)
      BY <1>1, <1>3, <2>3, ClassOfRoots
    <3> QED BY <2>3, <3>1
  <2>4. CASE m \in folder
    <3>1. folder = {m} /\ m.as = "class" /\ m.name = name
      BY <1>1, <2>4, FolderHolds DEF ClassIn, AtMostOne
    <3>2. ClassOfRoot(name, r) = folder
      BY <2>4, FirstOfTwo DEF ClassOfRoot
    <3> QED BY <2>1, <2>3, <3>1, <3>2
  <2>5. CASE folder = {} /\ m \in package
    <3>1. package = {m} /\ m.as = "function"
      BY <1>1, <2>5, PackageFunctionHolds DEF FunctionOf, AtMostOne
    <3>2. FunctionIn(name, r) = package
      BY <2>5, FirstOfTwo DEF FunctionIn
    <3> QED BY <2>2, <3>1, <3>2
  <2>6. CASE m \in static
    <3> DEFINE n == Front(name)
    <3>1. Len(name) # 1
      BY <1>1, <2>6, StaticHolds
    <3>2. /\ static = ClassOfRoot(n, r) /\ static = {m} /\ m.as = "class" /\ m.name = n
      BY <1>1, <2>6, <3>1, StaticHolds DEF ClassOfRoot, ClassIn, AtMostOne
    <3>3. \A j \in 1 .. i - 1 : ClassOfRoot(n, roots[j]) = StaticClass(name, roots[j])
      BY <1>1, <3>1, StaticHolds DEF ClassOfRoot
    <3> HIDE DEF n
    <3> QED BY <2>1, <2>3, <3>2, <3>3
  <2>7. CASE package = {} /\ m \in plain
    <3>1. plain = {m} /\ m.as = "function"
      BY <1>1, <2>7, PlainFunctionHolds DEF FunctionOf, AtMostOne
    <3>2. FunctionIn(name, r) = plain
      BY <2>7, FirstOfTwo DEF FunctionIn
    <3> QED BY <2>2, <3>1, <3>2
  <2>8. CASE folder = {} /\ m \in class
    <3>1. class = {m} /\ m.as = "class" /\ m.name = name
      BY <1>1, <2>8, PlainClassHolds DEF ClassIn, AtMostOne
    <3>2. ClassOfRoot(name, r) = class
      BY <2>8, FirstOfTwo DEF ClassOfRoot
    <3> QED BY <2>1, <2>3, <3>1, <3>2
  <2> QED BY <1>3, <2>4, <2>5, <2>6, <2>7, <2>8, SomethingInRoot
<1> QED BY <1>1, <1>2, <1>3, CallableOfRoots

\* The lookups that list the places on their own agree about every name
\* (resolve_callable with resolve_function and resolve_class_definition).
THEOREM LookupsStayAgreed == Spec => []LookupsAgree
<1>1. RInv => LookupsAgree
  BY CallMeans DEF LookupsAgree
<1> QED BY <1>1, RInvHolds, PTL

\* No search path leads into a private directory.
PublicSearchPaths == \A s \in SearchPaths : \A r \in Range(s) : Last(r) # Private

LEMMA PackageDirIs ==
  ASSUME NEW r \in Dirs, NEW name \in LookupNames
  PROVE  /\ PackageDir(r, name) \in Seq(Segments)
         /\ Len(PackageDir(r, name)) = Len(r) + (Len(name) - 1)
         /\ Last(PackageDir(r, name)) =
              IF Len(name) = 1 THEN Last(r) ELSE Package(name[Len(name) - 1])
         /\ Last(FolderDir(name, r)) = Class(Last(name))
<1> DEFINE n == Len(name) - 1
           packages == [i \in 1 .. n |-> Package(name[i])]
           dir == r \o packages
<1>1. /\ name \in Seq(STRING) /\ n \in Nat /\ r \in Seq(Segments) /\ Len(r) \in Nat /\ Len(r) # 0
      /\ Len(name) = n + 1
  BY DEF LookupNames, Dirs
<1>2. \A i \in 1 .. n : Package(name[i]) \in Segments
  BY <1>1 DEF Package, Segments
<1>3. packages \in Seq(Segments) /\ Len(packages) = n /\ \A i \in 1 .. n : packages[i] = Package(name[i])
  BY <1>1, <1>2
<1> HIDE DEF packages, n
<1>4. /\ dir \in Seq(Segments) /\ Len(dir) = Len(r) + n
      /\ \A i \in 1 .. Len(r) : dir[i] = r[i]
      /\ \A i \in 1 .. n : dir[Len(r) + i] = packages[i]
  BY <1>1, <1>3
<1>5. PackageDir(r, name) = dir
  BY DEF PackageDir, packages, n
<1> HIDE DEF dir
<1>6. Last(dir) = IF n = 0 THEN Last(r) ELSE Package(name[n])
  <2>1. CASE n = 0
    BY <1>1, <1>4, <2>1 DEF Last
  <2>2. CASE n # 0
    BY <1>1, <1>3, <1>4, <2>2 DEF Last
  <2> QED BY <2>1, <2>2
<1> DEFINE folder == Append(dir, Class(Last(name)))
<1>7. Last(name) \in STRING
  BY <1>1 DEF Last
<1>8. Last(folder) = Class(Last(name))
  <2>1. Class(Last(name)) \in Segments
    BY <1>7 DEF Class, Segments
  <2> DEFINE s == Class(Last(name))
  <2> HIDE DEF s
  <2>2. Len(Append(dir, s)) = Len(dir) + 1 /\ Append(dir, s)[Len(dir) + 1] = s
    BY <1>4, <2>1 DEF s
  <2> QED BY <2>2 DEF Last, s
<1>9. FolderDir(name, r) = folder
  BY <1>5 DEF FolderDir
<1>10. n = Len(name) - 1 /\ (n = 0 <=> Len(name) = 1)
  BY <1>1 DEF n
<1> QED BY <1>4, <1>5, <1>6, <1>8, <1>9, <1>10

LEMMA FrontOfAppend ==
  ASSUME NEW S, NEW s \in Seq(S), NEW x
  PROVE  Front(Append(s, x)) = s
<1> DEFINE T == S \cup {x}
           t == Append(s, x)
           front == SubSeq(t, 1, Len(t) - 1)
<1>1. s \in Seq(T) /\ x \in T
  OBVIOUS
<1> HIDE DEF T
<1>2. /\ t \in Seq(T) /\ Len(t) = Len(s) + 1 /\ Len(s) \in Nat
      /\ \A i \in 1 .. Len(s) : t[i] = s[i]
  BY <1>1
<1>3. Front(t) = front
  BY DEF Front
<1> HIDE DEF t
<1>4. front \in Seq(T) /\ Len(front) = Len(s) /\ \A i \in 1 .. Len(s) : front[i] = t[i]
  BY <1>2
<1> HIDE DEF front
<1>5. front = s
  BY <1>1, <1>2, <1>4
<1> QED BY <1>3, <1>5 DEF t

LEMMA NotPrivate ==
  ASSUME NEW x
  PROVE  Package(x) # Private /\ Class(x) # Private
<1>1. Package(x)[1] = "+" /\ Class(x)[1] = "@" /\ Private[1] = "private"
  BY DEF Package, Class, Private
<1>2. "+" # "private" /\ "@" # "private"
  OBVIOUS
<1> QED BY <1>1, <1>2

\* A root that is a private directory is the one the source file lies in.
LEMMA PublicRoots ==
  ASSUME PublicSearchPaths, RInv, NEW i \in DOMAIN roots, Last(roots[i]) = Private
  PROVE  roots[i] = sourceDir
<1>1. sourceDir \in SourceDirs /\ sourceDir \in Seq(Segments)
  BY ResolverAssumption DEF RInv, Dirs
<1>2. roots[i] \in {sourceDir} \cup Range(EnclosingRoot(sourceDir)) \cup UNION {Range(s) : s \in SearchPaths}
  BY DEF RInv, RootsAreGiven
<1>3. roots[i] \notin UNION {Range(s) : s \in SearchPaths}
  BY DEF PublicSearchPaths
<1>4. ASSUME NEW r \in Range(EnclosingRoot(sourceDir))
      PROVE  Last(r) # Private
  <2>1. PICK k \in 1 .. Len(sourceDir) :
          /\ sourceDir[k][1] = "dir"
          /\ EnclosingRoot(sourceDir) = IF k = Len(sourceDir) THEN << >>
                                        ELSE <<SubSeq(sourceDir, 1, k)>>
    BY <1>1, EnclosingRootIs
  <2>2. r = SubSeq(sourceDir, 1, k)
    BY <2>1 DEF Range
  <2>3. Len(r) = k /\ r[k] = sourceDir[k]
    BY <1>1, <2>2
  <2>4. Last(r)[1] = "dir"
    BY <2>1, <2>3 DEF Last
  <2>5. Private[1] = "private" /\ "private" # "dir"
    BY DEF Private
  <2> QED BY <2>4, <2>5
<1> QED BY <1>2, <1>3, <1>4

\* In a root, a call finds a private file only if the root is private.
LEMMA PrivateOfRoot ==
  ASSUME OneOfAName, NEW name \in LookupNames, NEW r \in Dirs, NEW m \in CallableIn(name, r),
         Last(m.file.dir) = Private
  PROVE  m.file.dir = r /\ Last(r) = Private
<1>1. CASE m \in FolderClass(name, r)
  <2>1. m.file.dir = FolderDir(name, r)
    BY <1>1, FolderHolds DEF ClassIn
  <2> QED BY <2>1, PackageDirIs, NotPrivate
<1>2. CASE m \in PackageFunction(name, r)
  <2>1. m.file.dir = PackageDir(r, name) /\ Len(name) # 1
    BY <1>2, PackageFunctionHolds DEF FunctionOf
  <2> QED BY <2>1, PackageDirIs, NotPrivate
<1>3. ASSUME NEW n \in LookupNames, m.file.dir = PackageDir(r, n)
      PROVE  m.file.dir = r /\ Last(r) = Private
  <2>1. Len(n) = 1 /\ Last(r) = Private
    BY <1>3, PackageDirIs, NotPrivate
  <2>2. PackageDir(r, n) = r
    <3> DEFINE packages == [i \in 1 .. Len(n) - 1 |-> Package(n[i])]
    <3>1. packages = << >>
      BY <2>1
    <3>2. PackageDir(r, n) = r \o packages
      BY DEF PackageDir
    <3> HIDE DEF packages
    <3>3. r \in Seq(Segments)
      BY DEF Dirs
    <3> QED BY <3>1, <3>2, <3>3
  <2> QED BY <1>3, <2>1, <2>2
<1>4. CASE m \in StaticClass(name, r)
  <2> DEFINE n == Front(name)
  <2>1. Len(name) # 1
    BY <1>4, StaticHolds
  <2>2. n \in LookupNames
    BY <2>1, FrontOfName
  <2>3. m.file.dir \in {FolderDir(n, r), PackageDir(r, n)}
    BY <1>4, <2>1, StaticHolds DEF ClassIn
  <2> HIDE DEF n
  <2>4. m.file.dir # FolderDir(n, r)
    BY <2>2, PackageDirIs, NotPrivate
  <2> QED BY <1>3, <2>2, <2>3, <2>4
<1>5. CASE m \in PlainFunction(name, r)
  BY <1>5, PlainFunctionHolds DEF FunctionOf
<1>6. CASE m \in PlainClass(name, r)
  <2>1. m.file.dir = PackageDir(r, name)
    BY <1>6, PlainClassHolds DEF ClassIn
  <2> QED BY <1>3, <2>1
<1> QED BY <1>1, <1>2, <1>4, <1>5, <1>6, SomethingInRoot

\* No search root gives a private file away, unless the search path itself
\* leads into a private directory: a root's own files are open to every call
\* (resolve_callable), whatever the root is called.
THEOREM PrivateFilesStay ==
  ASSUME PublicSearchPaths
  PROVE  Spec => []PrivateStaysPrivate
<1>1. ASSUME RInv, NEW name \in Names, NEW m \in ResolveCallable(name), Last(m.file.dir) = Private
      PROVE  sourceDir \in {m.file.dir, Front(m.file.dir)}
  <2>1. OneOfAName /\ RootsAreGiven /\ name \in LookupNames /\ sourceDir \in Seq(Segments)
    BY <1>1, ResolverAssumption DEF RInv, LookupNames, Dirs
  <2>2. CASE m \in PrivateFunction(name)
    <3>1. m.file.dir = Append(sourceDir, Private)
      BY <2>1, <2>2, PrivateHolds DEF FunctionOf
    <3>2. Front(Append(sourceDir, Private)) = sourceDir
      BY <2>1, FrontOfAppend
    <3> QED BY <3>1, <3>2
  <2>3. ASSUME NEW i \in DOMAIN roots, m \in CallableIn(name, roots[i])
        PROVE  sourceDir = m.file.dir
    <3>1. roots[i] \in Dirs
      BY <2>1 DEF RootsAreGiven
    <3>2. m.file.dir = roots[i] /\ Last(roots[i]) = Private
      BY <1>1, <2>1, <2>3, <3>1, PrivateOfRoot
    <3> QED BY <1>1, <3>2, PublicRoots
  <2> QED BY <2>1, <2>2, <2>3, CallableOfRoots
<1>2. RInv => PrivateStaysPrivate
  BY <1>1 DEF PrivateStaysPrivate
<1> QED BY <1>2, RInvHolds, PTL

\* A call finds something when some root has it.
LEMMA CallableFound ==
  ASSUME RootsAreGiven, NEW name, NEW i \in DOMAIN roots, CallableIn(name, roots[i]) # {}
  PROVE  ResolveCallable(name) # {}
<1> DEFINE n == Len(roots)
           places == [k \in DOMAIN roots |-> CallableIn(name, roots[k])]
<1>1. n \in Nat /\ DOMAIN roots = 1 .. n
  BY DEF RootsAreGiven
<1>2. ResolveCallable(name) = FirstIn(<<PrivateFunction(name), FirstIn(places)>>)
  BY DEF ResolveCallable, FirstInRoots, CallableIn
<1>3. DOMAIN places = 1 .. n /\ \A k \in 1 .. n : places[k] = CallableIn(name, roots[k])
  BY <1>1
<1> HIDE DEF places, n
<1>4. ~ \A k \in 1 .. n : places[k] = {}
  BY <1>1, <1>3
<1>5. FirstIn(places) # {}
  BY <1>1, <1>3, <1>4, FirstIsNone
<1> QED BY <1>2, <1>5, FirstOfTwo

\* A directory has one last plain segment.
LEMMA EnclosingRootAt ==
  ASSUME NEW dir \in SourceDirs, NEW k \in 1 .. Len(dir), k # Len(dir),
         dir[k][1] = "dir", \A i \in k + 1 .. Len(dir) : dir[i][1] # "dir"
  PROVE  SubSeq(dir, 1, k) \in Range(EnclosingRoot(dir))
<1>1. Len(dir) \in Nat
  BY ResolverAssumption DEF Dirs
<1>2. PICK l \in 1 .. Len(dir) :
        /\ dir[l][1] = "dir" /\ \A i \in l + 1 .. Len(dir) : dir[i][1] # "dir"
        /\ EnclosingRoot(dir) = IF l = Len(dir) THEN << >> ELSE <<SubSeq(dir, 1, l)>>
  BY EnclosingRootIs
<1>3. l = k
  <2>1. CASE l < k
    <3>1. k \in l + 1 .. Len(dir)
      BY <1>1, <2>1
    <3> QED BY <1>2, <3>1
  <2>2. CASE k < l
    <3>1. l \in k + 1 .. Len(dir)
      BY <1>1, <2>2
    <3> QED BY <1>2, <3>1
  <2> QED BY <1>1, <2>1, <2>2
<1>4. EnclosingRoot(dir) = <<SubSeq(dir, 1, k)>>
  BY <1>2, <1>3
<1> QED BY <1>4 DEF Range

\* Code in a package finds what its package, and the packages around it, have
\* under its full name (enclosing_lookup_root, resolve_callable).
THEOREM PackagesStayFound == Spec => []PackagesFindThemselves
<1>1. ASSUME RInv, NEW name \in Names, NEW f \in files, NEW k \in DOMAIN sourceDir,
             Len(name) > 1, f.name = Last(name),
             f.dir = PackageDir(SubSeq(sourceDir, 1, k), name), IsPrefix(f.dir, sourceDir),
             sourceDir[k][1] = "dir", \A i \in k + 1 .. Len(sourceDir) : sourceDir[i][1] # "dir"
      PROVE  ResolveCallable(name) # {}
  <2> DEFINE root == SubSeq(sourceDir, 1, k)
  <2>1. /\ OneOfAName /\ RootsAreGiven /\ name \in LookupNames
        /\ sourceDir \in SourceDirs /\ sourceDir \in Seq(Segments)
        /\ name \in Seq(STRING) /\ Len(name) \in Nat
    BY <1>1, ResolverAssumption DEF RInv, LookupNames, Dirs
  <2>2. k \in 1 .. Len(sourceDir) /\ root \in Seq(Segments) /\ Len(root) = k
    BY <1>1, <2>1
  <2>3. Len(f.dir) <= Len(sourceDir) /\ Len(f.dir) = k + (Len(name) - 1)
    <3>1. root \in Dirs
      BY <2>1, <2>2 DEF Dirs
    <3> HIDE DEF root
    <3>2. Len(PackageDir(root, name)) = k + (Len(name) - 1)
      BY <2>1, <2>2, <3>1, PackageDirIs
    <3> QED BY <1>1, <3>2 DEF IsPrefix, root
  <2>4. root \in Range(EnclosingRoot(sourceDir))
    <3>1. k # Len(sourceDir)
      BY <1>1, <2>1, <2>2, <2>3
    <3> QED BY <1>1, <2>1, <2>2, <3>1, EnclosingRootAt
  <2>5. PICK i \in DOMAIN roots : roots[i] = root
    BY <2>1, <2>4 DEF RootsAreGiven, Range
  <2>6. f \in [dir : Dirs, name : STRING, kind : {"function", "classdef"}]
    BY <1>1, ResolverAssumption DEF RInv
  <2> HIDE DEF root
  <2>7. PackageFunction(name, root) # {} \/ PlainClass(name, root) # {}
    <3>1. CASE f.kind = "function"
      <4>1. f \in FunctionFile(PackageDir(root, name), Last(name))
        BY <1>1, <2>6, <3>1 DEF FunctionFile, File, root
      <4>2. PackageFunction(name, root) =
              Match("function", name, FunctionFile(PackageDir(root, name), Last(name)))
        <5>1. Len(name) # 1
          <6>1. Len(name) > 1 /\ Len(name) \in Nat
            BY <1>1, <2>1, Zenon
          <6> QED BY <6>1
        <5> QED BY <5>1 DEF PackageFunction, Function
      <4> QED BY <4>1, <4>2 DEF Match
    <3>2. CASE f.kind = "classdef"
      <4>1. f \in ClassFile(PackageDir(root, name), Last(name))
        BY <1>1, <2>6, <3>2 DEF ClassFile, File, root
      <4>2. PlainClass(name, root) =
              Match("class", name, ClassFile(PackageDir(root, name), Last(name)))
        BY DEF PlainClass, ClassOf
      <4> QED BY <4>1, <4>2 DEF Match
    <3> QED BY <2>6, <3>1, <3>2
  <2>8. CallableIn(name, root) # {}
    BY <2>7, NothingInRoot
  <2> QED BY <2>1, <2>5, <2>8, CallableFound
<1>2. RInv => PackagesFindThemselves
  BY <1>1 DEF PackagesFindThemselves
<1> QED BY <1>2, RInvHolds, PTL

-----------------------------------------------------------------------------
(***************************************************************************)
(* What resolve_all_callables lists, pass by pass.                         *)
(***************************************************************************)
LEMMA ListingsEnd ==
  ASSUME NEW name, NEW first, NEW n \in Nat
  PROVE  \E listed : listed = [i \in 0 .. n |->
           IF i = 0 THEN first ELSE PushAllOfRoot(listed[i - 1], name, roots[i])]
<1> DEFINE Is(listed, k) == listed = [i \in 0 .. k |->
             IF i = 0 THEN first ELSE PushAllOfRoot(listed[i - 1], name, roots[i])]
           Bad == {k \in Nat : ~ \E listed : Is(listed, k)}
<1>1. Bad = {}
  <2> SUFFICES ASSUME Bad # {} PROVE FALSE
    OBVIOUS
  <2>1. PICK k \in Bad : \A j \in Bad : k <= j
    <3>1. Bad \in SUBSET Nat
      OBVIOUS
    <3> HIDE DEF Bad
    <3> QED BY <3>1, Smallest
  <2>2. k \in Nat /\ ~ \E listed : Is(listed, k)
    BY <2>1
  <2>3. CASE k = 0
    <3> DEFINE a == [i \in 0 .. 0 |-> first]
    <3>1. Is(a, 0)
      OBVIOUS
    <3> HIDE DEF Is
    <3> QED BY <2>2, <2>3, <3>1
  <2>4. CASE k # 0
    <3>1. k - 1 \in Nat /\ k - 1 \notin Bad
      BY <2>1, <2>2, <2>4
    <3>2. PICK b : Is(b, k - 1)
      BY <3>1
    <3> DEFINE a == [i \in 0 .. k |->
                 IF i = k THEN PushAllOfRoot(b[k - 1], name, roots[k]) ELSE b[i]]
    <3>3. b = [i \in 0 .. k - 1 |->
                IF i = 0 THEN first ELSE PushAllOfRoot(b[i - 1], name, roots[i])]
      BY <3>2
    <3>4. ASSUME NEW i \in 0 .. k
          PROVE  a[i] = IF i = 0 THEN first ELSE PushAllOfRoot(a[i - 1], name, roots[i])
      <4>1. CASE i = k
        <5>1. i - 1 \in 0 .. k /\ i - 1 # k /\ i # 0
          BY <2>2, <2>4, <4>1
        <5>2. a[i - 1] = b[k - 1]
          BY <4>1, <5>1
        <5> QED BY <4>1, <5>1, <5>2
      <4>2. CASE i # k
        <5>1. i \in 0 .. k - 1
          BY <2>2, <4>2
        <5>2. b[i] = IF i = 0 THEN first ELSE PushAllOfRoot(b[i - 1], name, roots[i])
          BY <3>3, <5>1
        <5>3. i # 0 => i - 1 \in 0 .. k /\ i - 1 # k
          BY <2>2, <4>2
        <5>4. i # 0 => a[i - 1] = b[i - 1]
          BY <5>3
        <5> QED BY <4>2, <5>2, <5>4
      <4> QED BY <4>1, <4>2
    <3>5. a = [i \in 0 .. k |->
                IF i = 0 THEN first ELSE PushAllOfRoot(a[i - 1], name, roots[i])]
      BY <3>4
    <3>6. Is(a, k)
      BY <3>5
    <3> HIDE DEF Is
    <3> QED BY <2>2, <3>6
  <2> QED BY <2>3, <2>4
<1>2. n \notin Bad
  BY <1>1
<1> QED BY <1>2

LEMMA ListedUpToFollows ==
  ASSUME NEW name, Len(roots) \in Nat
  PROVE  LET listed == ListedUpTo(name) IN
         /\ listed[0] = PushUnique(<< >>, PrivateFunction(name))
         /\ \A i \in 1 .. Len(roots) : listed[i] = PushAllOfRoot(listed[i - 1], name, roots[i])
<1> DEFINE n == Len(roots)
           first == PushUnique(<< >>, PrivateFunction(name))
           result == CHOOSE listed : listed = [i \in 0 .. n |->
             IF i = 0 THEN first ELSE PushAllOfRoot(listed[i - 1], name, roots[i])]
<1>1. ListedUpTo(name) = result
  BY DEF ListedUpTo
<1>2. result = [i \in 0 .. n |->
                 IF i = 0 THEN first ELSE PushAllOfRoot(result[i - 1], name, roots[i])]
  <2> HIDE DEF first
  <2> QED BY ListingsEnd
<1> HIDE DEF result
<1>3. \A i \in 0 .. n :
        result[i] = IF i = 0 THEN first ELSE PushAllOfRoot(result[i - 1], name, roots[i])
  BY <1>2
<1>4. 0 \in 0 .. n /\ \A i \in 1 .. n : i \in 0 .. n /\ i # 0
  OBVIOUS
<1>5. result[0] = first /\ \A i \in 1 .. n : result[i] = PushAllOfRoot(result[i - 1], name, roots[i])
  BY <1>3, <1>4
<1> QED BY <1>1, <1>5


IsListing(list) == list \in Seq(SUBSET Matches) /\ \A i \in 1 .. Len(list) : list[i] # {}

LEMMA FirstOfListing ==
  ASSUME NEW list, IsListing(list)
  PROVE  FirstIn(list) = IF Len(list) = 0 THEN {} ELSE list[1]
<1> DEFINE n == Len(list)
<1>1. n \in Nat /\ DOMAIN list = 1 .. n /\ \A i \in 1 .. n : list[i] # {}
  BY DEF IsListing
<1> HIDE DEF n
<1>2. CASE n = 0
  <2>1. \A i \in 1 .. n : list[i] = {}
    BY <1>2
  <2> QED BY <1>1, <1>2, <2>1, FirstIsNone DEF n
<1>3. CASE n # 0
  <2>1. 1 \in 1 .. n /\ list[1] # {} /\ \A j \in 1 .. 1 - 1 : list[j] = {}
    BY <1>1, <1>3
  <2>2. FirstIn(list) = list[1]
    BY <1>1, <2>1, FirstIs
  <2> QED BY <1>3, <2>2 DEF n
<1> QED BY <1>2, <1>3

\* A place is the first of a listing only if nothing was listed before.
LEMMA PushKeepsFirst ==
  ASSUME NEW list, IsListing(list), NEW place \in SUBSET Matches
  PROVE  /\ IsListing(PushUnique(list, place))
         /\ FirstIn(PushUnique(list, place)) = IF FirstIn(list) # {} THEN FirstIn(list) ELSE place
<1> DEFINE known == \E i \in DOMAIN list : \E m \in list[i], n \in place : m.file = n.file
           n == Len(list)
<1>1. n \in Nat /\ DOMAIN list = 1 .. n /\ list \in Seq(SUBSET Matches) /\ \A i \in 1 .. n : list[i] # {}
  BY DEF IsListing
<1>2. FirstIn(list) = IF n = 0 THEN {} ELSE list[1]
  BY FirstOfListing
<1>3. known => n # 0
  BY <1>1
<1>4. n # 0 => list[1] # {}
  BY <1>1
<1>5. PushUnique(list, place) = IF place = {} \/ known THEN list ELSE Append(list, place)
  BY DEF PushUnique
<1> HIDE DEF known
<1>6. CASE place = {} \/ known
  BY <1>2, <1>3, <1>4, <1>5, <1>6
<1>7. CASE ~ (place = {} \/ known)
  <2> DEFINE more == Append(list, place)
  <2>1. /\ more \in Seq(SUBSET Matches) /\ Len(more) = n + 1
        /\ \A i \in 1 .. n : more[i] = list[i]
        /\ more[n + 1] = place
    BY <1>1
  <2> HIDE DEF more, n
  <2>2. \A i \in 1 .. n + 1 : i \in 1 .. n \/ i = n + 1
    BY <1>1
  <2>3. IsListing(more)
    BY <1>1, <1>7, <2>1, <2>2 DEF IsListing
  <2>4. FirstIn(more) = more[1]
    BY <1>1, <2>1, <2>3, FirstOfListing
  <2>5. more[1] = IF n = 0 THEN place ELSE list[1]
    BY <1>1, <2>1
  <2>6. PushUnique(list, place) = more
    BY <1>5, <1>7 DEF more
  <2> QED BY <1>2, <1>4, <2>3, <2>4, <2>5, <2>6
<1> QED BY <1>6, <1>7

LEMMA PassKeepsFirst ==
  ASSUME OneOfAName, NEW name \in LookupNames, NEW r, NEW list, IsListing(list)
  PROVE  /\ IsListing(PushAllOfRoot(list, name, r))
         /\ FirstIn(PushAllOfRoot(list, name, r)) =
              IF FirstIn(list) # {} THEN FirstIn(list) ELSE CallableIn(name, r)
<1> DEFINE a == FolderClass(name, r)
           b == PackageFunction(name, r)
           c == StaticClass(name, r)
           d == PlainFunction(name, r)
           e == PlainClass(name, r)
           la == PushUnique(list, a)
           lb == PushUnique(la, b)
           lc == PushUnique(lb, c)
           ld == PushUnique(lc, d)
           le == PushUnique(ld, e)
<1>1. /\ a \in SUBSET Matches /\ b \in SUBSET Matches /\ d \in SUBSET Matches
      /\ e \in SUBSET Matches
  BY FolderHolds, PackageFunctionHolds, PlainFunctionHolds, PlainClassHolds
     DEF FunctionOf, ClassIn
<1>2. c \in SUBSET Matches
  BY StaticHolds DEF ClassIn
<1>3. PushAllOfRoot(list, name, r) = le /\ CallableIn(name, r) = FirstIn(<<a, b, c, d, e>>)
  BY DEF PushAllOfRoot, CallableIn
<1> HIDE DEF a, b, c, d, e, la, lb, lc, ld, le
<1>4. IsListing(la) /\ FirstIn(la) = IF FirstIn(list) # {} THEN FirstIn(list) ELSE a
  BY <1>1, PushKeepsFirst DEF la
<1>5. IsListing(lb) /\ FirstIn(lb) = IF FirstIn(la) # {} THEN FirstIn(la) ELSE b
  BY <1>1, <1>4, PushKeepsFirst DEF lb
<1>6. IsListing(lc) /\ FirstIn(lc) = IF FirstIn(lb) # {} THEN FirstIn(lb) ELSE c
  BY <1>2, <1>5, PushKeepsFirst DEF lc
<1>7. IsListing(ld) /\ FirstIn(ld) = IF FirstIn(lc) # {} THEN FirstIn(lc) ELSE d
  BY <1>1, <1>6, PushKeepsFirst DEF ld
<1>8. IsListing(le) /\ FirstIn(le) = IF FirstIn(ld) # {} THEN FirstIn(ld) ELSE e
  BY <1>1, <1>7, PushKeepsFirst DEF le
<1>9. FirstIn(<<a, b, c, d, e>>) =
        IF a # {} THEN a ELSE IF b # {} THEN b ELSE IF c # {} THEN c ELSE IF d # {} THEN d ELSE e
  BY FirstOfFive
<1>10. FirstIn(le) = IF FirstIn(list) # {} THEN FirstIn(list) ELSE FirstIn(<<a, b, c, d, e>>)
  BY <1>4, <1>5, <1>6, <1>7, <1>8, <1>9
<1> QED BY <1>3, <1>8, <1>10

\* One more place at the end.
LEMMA FirstOfMore ==
  ASSUME NEW n \in Nat, n # 0, NEW p, DOMAIN p = 1 .. n, NEW q, DOMAIN q = 1 .. n - 1,
         \A i \in 1 .. n - 1 : q[i] = p[i]
  PROVE  FirstIn(p) = IF FirstIn(q) # {} THEN FirstIn(q) ELSE p[n]
<1>1. n - 1 \in Nat
  OBVIOUS
<1>2. CASE FirstIn(q) # {}
  <2>1. PICK x : x \in FirstIn(q)
    BY <1>2
  <2>2. PICK i \in 1 .. n - 1 :
          /\ x \in q[i] /\ \A j \in 1 .. i - 1 : q[j] = {}
          /\ FirstIn(q) = q[i]
    BY <1>1, <2>1, FirstIsOf
  <2>3. /\ i \in 1 .. n /\ p[i] # {} /\ p[i] = q[i]
        /\ \A j \in 1 .. i - 1 : j \in 1 .. n - 1
    BY <2>2
  <2>4. \A j \in 1 .. i - 1 : p[j] = {}
    BY <2>2, <2>3
  <2>5. FirstIn(p) = p[i]
    BY <2>3, <2>4, FirstIs
  <2> QED BY <1>2, <2>2, <2>3, <2>5
<1>3. CASE FirstIn(q) = {}
  <2>1. \A i \in 1 .. n - 1 : q[i] = {}
    BY <1>1, <1>3, FirstIsNone
  <2>2. \A i \in 1 .. n - 1 : p[i] = {}
    BY <2>1
  <2>3. CASE p[n] # {}
    <3>1. n \in 1 .. n
      OBVIOUS
    <3>2. FirstIn(p) = p[n]
      BY <2>2, <2>3, <3>1, FirstIs
    <3> QED BY <1>3, <3>2
  <2>4. CASE p[n] = {}
    <3>1. \A i \in 1 .. n : i \in 1 .. n - 1 \/ i = n
      OBVIOUS
    <3>2. \A i \in 1 .. n : p[i] = {}
      BY <2>2, <2>4, <3>1
    <3>3. FirstIn(p) = {}
      BY <3>2, FirstIsNone
    <3> QED BY <1>3, <2>4, <3>3
  <2> QED BY <2>3, <2>4
<1> QED BY <1>2, <1>3

LEMMA ListedFirst ==
  ASSUME RInv, NEW name \in Names
  PROVE  ResolveCallable(name) = FirstIn(ResolveAllCallables(name))
<1> DEFINE n == Len(roots)
           l == ListedUpTo(name)
           private == PrivateFunction(name)
           places(k) == [i \in 1 .. k |-> CallableIn(name, roots[i])]
           Good(k) == IsListing(l[k]) /\ FirstIn(l[k]) = FirstIn(<<private, FirstIn(places(k))>>)
           Bad == {k \in 0 .. n : ~ Good(k)}
<1>1. OneOfAName /\ name \in LookupNames /\ n \in Nat /\ DOMAIN roots = 1 .. n
  BY ResolverAssumption DEF RInv, LookupNames, RootsAreGiven
<1>2. l[0] = PushUnique(<< >>, private) /\ \A i \in 1 .. n : l[i] = PushAllOfRoot(l[i - 1], name, roots[i])
  BY <1>1, ListedUpToFollows
<1>3. private \in SUBSET Matches
  BY <1>1, PrivateHolds DEF FunctionOf
<1>4. ResolveCallable(name) = FirstIn(<<private, FirstIn(places(n))>>)
  BY <1>1 DEF ResolveCallable, FirstInRoots, CallableIn
<1>5. ResolveAllCallables(name) = l[n]
  BY DEF ResolveAllCallables
<1> HIDE DEF l, private, n
<1>6. Bad = {}
  <2> SUFFICES ASSUME Bad # {} PROVE FALSE
    OBVIOUS
  <2>1. PICK k \in Bad : \A j \in Bad : k <= j
    <3>1. Bad \in SUBSET Nat
      BY <1>1
    <3> HIDE DEF Bad
    <3> QED BY <3>1, Smallest
  <2>2. k \in 0 .. n /\ ~ Good(k)
    BY <2>1
  <2>3. CASE k = 0
    <3>1. IsListing(<< >>) /\ FirstIn(<< >>) = {}
      <4>1. IsListing(<< >>)
        BY DEF IsListing
      <4> QED BY <4>1, FirstOfListing
    <3>2. IsListing(l[0]) /\ FirstIn(l[0]) = private
      BY <1>2, <1>3, <3>1, PushKeepsFirst
    <3>3. FirstIn(places(0)) = {}
      <4>1. 0 \in Nat /\ DOMAIN places(0) = 1 .. 0 /\ \A i \in 1 .. 0 : places(0)[i] = {}
        OBVIOUS
      <4> HIDE DEF places
      <4> QED BY <4>1, FirstIsNone
    <3>4. FirstIn(<<private, FirstIn(places(0))>>) = private
      BY <3>3, FirstOfTwo
    <3> QED BY <2>2, <2>3, <3>2, <3>4
  <2>4. CASE k # 0
    <3>1. k - 1 \in 0 .. n /\ ~ (k <= k - 1) /\ k \in 1 .. n /\ k \in Nat
      BY <1>1, <2>2, <2>4
    <3>2. Good(k - 1)
      BY <2>1, <3>1
    <3> DEFINE list == l[k - 1]
               r == roots[k]
               p == places(k)
               q == places(k - 1)
    <3>3. IsListing(list) /\ FirstIn(list) = FirstIn(<<private, FirstIn(q)>>)
      BY <3>2
    <3>4. l[k] = PushAllOfRoot(list, name, r)
      BY <1>2, <3>1
    <3>5. /\ DOMAIN p = 1 .. k /\ DOMAIN q = 1 .. k - 1
          /\ \A i \in 1 .. k - 1 : q[i] = p[i]
          /\ p[k] = CallableIn(name, r)
      BY <3>1
    <3> HIDE DEF list, r, p, q
    <3>6. IsListing(l[k]) /\ FirstIn(l[k]) = IF FirstIn(list) # {} THEN FirstIn(list) ELSE p[k]
      BY <1>1, <3>3, <3>4, <3>5, PassKeepsFirst
    <3>7. FirstIn(p) = IF FirstIn(q) # {} THEN FirstIn(q) ELSE p[k]
      BY <2>4, <3>1, <3>5, FirstOfMore
    <3>8. /\ FirstIn(<<private, FirstIn(p)>>) = IF private # {} THEN private ELSE FirstIn(p)
          /\ FirstIn(<<private, FirstIn(q)>>) = IF private # {} THEN private ELSE FirstIn(q)
      BY FirstOfTwo
    <3>9. FirstIn(l[k]) = FirstIn(<<private, FirstIn(p)>>)
      BY <3>3, <3>6, <3>7, <3>8
    <3> QED BY <2>2, <3>6, <3>9 DEF p
  <2> QED BY <2>3, <2>4
<1>7. Good(n)
  <2>1. n \in 0 .. n
    BY <1>1
  <2>2. n \notin Bad
    BY <1>6
  <2> QED BY <2>1, <2>2
<1> QED BY <1>4, <1>5, <1>7

\* What a call means is the first of all that are listed: the loops of
\* resolve_callable and resolve_all_callables go through the same places.
THEOREM CallsStayFirst == Spec => []CallsMeanTheFirst
<1>1. RInv => CallsMeanTheFirst
  BY ListedFirst DEF CallsMeanTheFirst
<1> QED BY <1>1, RInvHolds, PTL


-----------------------------------------------------------------------------
(***************************************************************************)
(* What the places hold when a file has gone.                              *)
(***************************************************************************)
Without(place, f) == {m \in place : m.file # f}

LEMMA PlacesNext ==
  ASSUME NEW f, files' = files \ {f}, UNCHANGED sourceDir
  PROVE  /\ \A name : PrivateFunction(name)' = Without(PrivateFunction(name), f)
         /\ \A name, r : FolderClass(name, r)' = Without(FolderClass(name, r), f)
         /\ \A name, r : PackageFunction(name, r)' = Without(PackageFunction(name, r), f)
         /\ \A name, r : PlainFunction(name, r)' = Without(PlainFunction(name, r), f)
         /\ \A name, r : PlainClass(name, r)' = Without(PlainClass(name, r), f)
<1> USE DEF Without, Match, Function, ClassOf, AnyFile, FunctionFile, ClassFile
<1>1. \A name : PrivateFunction(name)' = Without(PrivateFunction(name), f)
  BY DEF PrivateFunction
<1>2. \A name, r : FolderClass(name, r)' = Without(FolderClass(name, r), f)
  BY DEF FolderClass
<1>3. \A name, r : PackageFunction(name, r)' = Without(PackageFunction(name, r), f)
  BY DEF PackageFunction
<1>4. \A name, r : PlainFunction(name, r)' = Without(PlainFunction(name, r), f)
  BY DEF PlainFunction
<1>5. \A name, r : PlainClass(name, r)' = Without(PlainClass(name, r), f)
  BY DEF PlainClass
<1> HIDE DEF Without, Match, Function, ClassOf, AnyFile, FunctionFile, ClassFile
<1> QED BY <1>1, <1>2, <1>3, <1>4, <1>5

\* A class folder that goes lets the class file beside it come forward.
StaticNext(name, r, f) ==
  IF Len(name) = 1 THEN {}
  ELSE FirstIn(<<Without(FolderClass(Front(name), r), f), Without(PlainClass(Front(name), r), f)>>)

LEMMA StaticClassNext ==
  ASSUME NEW f, files' = files \ {f}, UNCHANGED sourceDir
  PROVE  \A name, r : StaticClass(name, r)' = StaticNext(name, r, f)
<1> TAKE name, r
<1>1. \A class : /\ FolderClass(class, r)' = Without(FolderClass(class, r), f)
                 /\ PlainClass(class, r)' = Without(PlainClass(class, r), f)
  BY PlacesNext
<1>2. StaticClass(name, r)' =
        IF Len(name) = 1 THEN {}
        ELSE FirstIn(<<FolderClass(Front(name), r)', PlainClass(Front(name), r)'>>)
  BY DEF StaticClass
<1> QED BY <1>1, <1>2 DEF StaticNext

\* What a root gives the call next, and what it had besides f.
InRootNext(name, r, f) ==
  FirstIn(<<Without(FolderClass(name, r), f), Without(PackageFunction(name, r), f),
            StaticNext(name, r, f), Without(PlainFunction(name, r), f),
            Without(PlainClass(name, r), f)>>)
RestInRoot(name, r, f) ==
  FirstIn(<<Without(FolderClass(name, r), f), Without(PackageFunction(name, r), f),
            Without(StaticClass(name, r), f), Without(PlainFunction(name, r), f),
            Without(PlainClass(name, r), f)>>)

LEMMA CallableInNext ==
  ASSUME NEW f, files' = files \ {f}, UNCHANGED sourceDir
  PROVE  \A name, r : CallableIn(name, r)' = InRootNext(name, r, f)
<1> TAKE name, r
<1>1. CallableIn(name, r)' =
        FirstIn(<<FolderClass(name, r)', PackageFunction(name, r)', StaticClass(name, r)',
                  PlainFunction(name, r)', PlainClass(name, r)'>>)
  BY DEF CallableIn
<1> QED BY <1>1, PlacesNext, StaticClassNext DEF InRootNext

LEMMA ResolveNext ==
  ASSUME NEW f, files' = files \ {f}, UNCHANGED sourceDir, NEW name,
         NEW rs, roots = rs, roots' = rs
  PROVE  ResolveCallable(name)' =
           FirstIn(<<Without(PrivateFunction(name), f),
                     FirstIn([i \in DOMAIN rs |-> InRootNext(name, rs[i], f)])>>)
<1>1. ResolveCallable(name)' =
        FirstIn(<<PrivateFunction(name)',
                  FirstIn([i \in DOMAIN rs |-> CallableIn(name, rs[i])'])>>)
  BY DEF ResolveCallable, FirstInRoots, CallableIn
<1>2. \A i \in DOMAIN rs : CallableIn(name, rs[i])' = InRootNext(name, rs[i], f)
  BY CallableInNext
<1>3. PrivateFunction(name)' = Without(PrivateFunction(name), f)
  BY PlacesNext
<1> QED BY <1>1, <1>2, <1>3

\* The root gives the call what it had besides f, unless f was the class folder
\* of the method called: then it gives the class file that f hid.
LEMMA RootNext ==
  ASSUME OneOfAName, NEW name \in LookupNames, NEW r, NEW f
  PROVE  /\ InRootNext(name, r, f) = {} => RestInRoot(name, r, f) = {}
         /\ CallableIn(name, r) = {} => InRootNext(name, r, f) = {}
         /\ InRootNext(name, r, f) # RestInRoot(name, r, f) =>
              LET class == Front(name) IN
              /\ Len(name) # 1
              /\ f.dir = FolderDir(class, r) /\ f.name = Last(class)
              /\ InRootNext(name, r, f) = PlainClass(class, r)
              /\ \A m \in PlainClass(class, r) : m.file # f
         /\ Without(PlainClass(name, r), f) # {} => RestInRoot(name, r, f) # {}
<1> DEFINE a == Without(FolderClass(name, r), f)
           b == Without(PackageFunction(name, r), f)
           t == StaticNext(name, r, f)
           s == Without(StaticClass(name, r), f)
           d == Without(PlainFunction(name, r), f)
           e == Without(PlainClass(name, r), f)
           V == InRootNext(name, r, f)
           W == RestInRoot(name, r, f)
           class == Front(name)
           folder == FolderClass(class, r)
           plain == PlainClass(class, r)
<1>1. /\ V = FirstIn(<<a, b, t, d, e>>)
      /\ W = FirstIn(<<a, b, s, d, e>>)
  BY DEF InRootNext, RestInRoot
<1>2. /\ Len(name) = 1 => t = {} /\ s = {}
      /\ Len(name) # 1 => t = FirstIn(<<Without(folder, f), Without(plain, f)>>)
                          /\ StaticClass(name, r) = FirstIn(<<folder, plain>>)
  BY DEF StaticNext, StaticClass, Without
<1>3. Len(name) # 1 => /\ ClassIn(folder, class, {FolderDir(class, r)})
                       /\ ClassIn(plain, class, {PackageDir(r, class)})
  BY FolderHolds, PlainClassHolds, FrontOfName
<1>4. Len(name) # 1 => \A m \in folder : m.file.dir = FolderDir(class, r) /\ m.file.name = Last(class)
  <2>1. \A m \in folder : m.file \in AnyFile(FolderDir(class, r), Last(class))
    BY DEF FolderClass, ClassOf, Match, FolderDir
  <2> QED BY <2>1, FilesOfDir
<1>5. CallableIn(name, r) = {} => a = {} /\ b = {} /\ StaticClass(name, r) = {} /\ d = {} /\ e = {}
  BY NothingInRoot DEF Without
<1> HIDE DEF class, folder, plain
<1>6. t # s => /\ Len(name) # 1 /\ s = {} /\ t = plain
               /\ \E m \in folder : m.file = f
               /\ \A m \in plain : m.file # f
  <2>1. CASE Len(name) = 1
    BY <1>2, <2>1
  <2>2. CASE Len(name) # 1
    <3>1. t = IF Without(folder, f) # {} THEN Without(folder, f) ELSE Without(plain, f)
      BY <1>2, <2>2, FirstOfTwo
    <3>2. StaticClass(name, r) = IF folder # {} THEN folder ELSE plain
      BY <1>2, <2>2, FirstOfTwo
    <3>3. AtMostOne(folder) /\ AtMostOne(plain)
      BY <1>3, <2>2 DEF ClassIn
    <3>4. CASE folder = {}
      BY <3>1, <3>2, <3>4 DEF Without
    <3>5. CASE folder # {} /\ Without(folder, f) # {}
      BY <3>1, <3>2, <3>5
    <3>6. CASE folder # {} /\ Without(folder, f) = {}
      <4>1. s = {} /\ \E m \in folder : m.file = f
        BY <3>2, <3>6 DEF Without
      <4>2. t = Without(plain, f)
        BY <3>1, <3>6
      <4>3. t # {} => t = plain /\ \A m \in plain : m.file # f
        BY <3>3, <4>2 DEF AtMostOne, Without
      <4> QED BY <2>2, <4>1, <4>3
    <3> QED BY <3>4, <3>5, <3>6
  <2> QED BY <2>1, <2>2
<1>7. StaticClass(name, r) = {} => t = {} /\ s = {}
  <2>1. CASE Len(name) = 1
    BY <1>2, <2>1
  <2>2. CASE Len(name) # 1
    <3>1. /\ t = IF Without(folder, f) # {} THEN Without(folder, f) ELSE Without(plain, f)
          /\ StaticClass(name, r) = IF folder # {} THEN folder ELSE plain
      BY <1>2, <2>2, FirstOfTwo
    <3> QED BY <3>1 DEF Without
  <2> QED BY <2>1, <2>2
<1>8. t = {} => s = {}
  BY <1>6
<1> HIDE DEF a, b, t, s, d, e, V, W
<1>9. /\ V = IF a # {} THEN a ELSE IF b # {} THEN b ELSE IF t # {} THEN t ELSE IF d # {} THEN d ELSE e
      /\ W = IF a # {} THEN a ELSE IF b # {} THEN b ELSE IF s # {} THEN s ELSE IF d # {} THEN d ELSE e
  BY <1>1, FirstOfFive
<1>10. V = {} => W = {}
  BY <1>8, <1>9
<1>11. CallableIn(name, r) = {} => V = {}
  BY <1>5, <1>7, <1>9
<1>12. V # W => t # s /\ V = t
  BY <1>6, <1>8, <1>9
<1>13. e # {} => W # {}
  BY <1>9
<1>14. V # W => /\ Len(name) # 1 /\ V = plain /\ \A m \in plain : m.file # f
                /\ f.dir = FolderDir(class, r) /\ f.name = Last(class)
  <2> SUFFICES ASSUME V # W
               PROVE  /\ Len(name) # 1 /\ V = plain /\ \A m \in plain : m.file # f
                      /\ f.dir = FolderDir(class, r) /\ f.name = Last(class)
    OBVIOUS
  <2>1. Len(name) # 1 /\ V = plain /\ \A m \in plain : m.file # f
    BY <1>6, <1>12
  <2>2. PICK m \in folder : m.file = f
    BY <1>6, <1>12
  <2> QED BY <1>4, <2>1, <2>2
<1> QED BY <1>10, <1>11, <1>13, <1>14 DEF V, W, e, class, plain


-----------------------------------------------------------------------------
(***************************************************************************)
(* What a listing has besides a file.                                      *)
(***************************************************************************)
Rest(list, f) == FirstIn([i \in DOMAIN list |-> Without(list[i], f)])

\* A listing has a file once, and one match at a place.
Tidy(list) ==
  /\ IsListing(list)
  /\ \A i \in DOMAIN list : AtMostOne(list[i])
  /\ \A i, j \in DOMAIN list : \A m \in list[i], n \in list[j] : m.file = n.file => i = j

LEMMA PushKeepsRest ==
  ASSUME NEW list, Tidy(list), NEW place \in SUBSET Matches, AtMostOne(place), NEW f
  PROVE  /\ Tidy(PushUnique(list, place))
         /\ Rest(PushUnique(list, place), f) =
              IF Rest(list, f) # {} THEN Rest(list, f) ELSE Without(place, f)
<1> DEFINE known == \E i \in DOMAIN list : \E m \in list[i], n \in place : m.file = n.file
           n == Len(list)
           q == [i \in DOMAIN list |-> Without(list[i], f)]
<1>1. /\ n \in Nat /\ DOMAIN list = 1 .. n /\ list \in Seq(SUBSET Matches)
      /\ \A i \in 1 .. n : list[i] # {}
  BY DEF Tidy, IsListing
<1>2. PushUnique(list, place) = IF place = {} \/ known THEN list ELSE Append(list, place)
  BY DEF PushUnique
<1>3. DOMAIN q = 1 .. n /\ (\A i \in 1 .. n : q[i] = Without(list[i], f)) /\ Rest(list, f) = FirstIn(q)
  BY <1>1 DEF Rest
<1> HIDE DEF q
<1>4. CASE place = {}
  BY <1>2, <1>4 DEF Without
<1>5. CASE known
  <2>1. PICK i \in 1 .. n : \E m \in list[i], x \in place : m.file = x.file
    BY <1>1, <1>5
  <2>2. PICK m \in list[i], x \in place : m.file = x.file
    BY <2>1
  <2>3. Without(place, f) # {} => q[i] # {}
    <3>1. \A y \in place : y = x
      BY DEF AtMostOne
    <3> QED BY <1>3, <2>2, <3>1 DEF Without
  <2>4. q[i] # {} => FirstIn(q) # {}
    BY <1>1, <1>3, FirstIsNone
  <2> HIDE DEF known
  <2> QED BY <1>2, <1>3, <1>5, <2>3, <2>4
<1>6. CASE place # {} /\ ~ known
  <2> DEFINE more == Append(list, place)
             p == [i \in DOMAIN more |-> Without(more[i], f)]
  <2>1. /\ more \in Seq(SUBSET Matches) /\ Len(more) = n + 1 /\ DOMAIN more = 1 .. n + 1
        /\ \A i \in 1 .. n : more[i] = list[i]
        /\ more[n + 1] = place
    BY <1>1
  <2>2. \A i \in 1 .. n : \A m \in list[i], x \in place : m.file # x.file
    BY <1>1, <1>6
  <2>3. PushUnique(list, place) = more
    BY <1>2, <1>6
  <2> HIDE DEF more, n, known
  <2>4. \A i \in 1 .. n + 1 : i \in 1 .. n \/ i = n + 1
    BY <1>1
  <2>5. IsListing(more)
    BY <1>1, <1>6, <2>1, <2>4 DEF IsListing
  <2>6. \A i \in DOMAIN more : AtMostOne(more[i])
    BY <1>1, <2>1, <2>4 DEF Tidy
  <2>7. ASSUME NEW i \in DOMAIN more, NEW j \in DOMAIN more, NEW m \in more[i], NEW x \in more[j],
               m.file = x.file
        PROVE  i = j
    <3>1. CASE i \in 1 .. n /\ j \in 1 .. n
      BY <1>1, <2>1, <2>7, <3>1 DEF Tidy
    <3>2. CASE i \in 1 .. n /\ j = n + 1
      BY <2>1, <2>2, <2>7, <3>2
    <3>3. CASE i = n + 1 /\ j \in 1 .. n
      BY <2>1, <2>2, <2>7, <3>3
    <3>4. CASE i = n + 1 /\ j = n + 1
      BY <3>4
    <3> QED BY <2>1, <2>4, <3>1, <3>2, <3>3, <3>4
  <2>8. Tidy(more)
    BY <2>5, <2>6, <2>7 DEF Tidy
  <2>9. /\ DOMAIN p = 1 .. n + 1 /\ \A i \in 1 .. n : q[i] = p[i]
        /\ p[n + 1] = Without(place, f) /\ Rest(more, f) = FirstIn(p)
    BY <1>1, <1>3, <2>1, <2>4 DEF Rest
  <2> HIDE DEF p
  <2>10. n + 1 \in Nat /\ n + 1 # 0 /\ (n + 1) - 1 = n
    BY <1>1
  <2> DEFINE k == n + 1
  <2>11. k \in Nat /\ k # 0 /\ k - 1 = n
    BY <2>10
  <2>12. DOMAIN p = 1 .. k /\ DOMAIN q = 1 .. k - 1 /\ \A i \in 1 .. k - 1 : q[i] = p[i]
    BY <1>3, <2>9, <2>11
  <2>13. p[k] = Without(place, f)
    BY <2>9
  <2> HIDE DEF k
  <2>14. FirstIn(p) = IF FirstIn(q) # {} THEN FirstIn(q) ELSE p[k]
    BY <2>11, <2>12, FirstOfMore
  <2> QED BY <1>3, <2>3, <2>8, <2>9, <2>13, <2>14
<1> QED BY <1>4, <1>5, <1>6

LEMMA PassKeepsRest ==
  ASSUME OneOfAName, NEW name \in LookupNames, NEW r, NEW list, Tidy(list), NEW f
  PROVE  /\ Tidy(PushAllOfRoot(list, name, r))
         /\ Rest(PushAllOfRoot(list, name, r), f) =
              IF Rest(list, f) # {} THEN Rest(list, f) ELSE RestInRoot(name, r, f)
<1> DEFINE a == FolderClass(name, r)
           b == PackageFunction(name, r)
           c == StaticClass(name, r)
           d == PlainFunction(name, r)
           e == PlainClass(name, r)
           la == PushUnique(list, a)
           lb == PushUnique(la, b)
           lc == PushUnique(lb, c)
           ld == PushUnique(lc, d)
           le == PushUnique(ld, e)
<1>1. /\ a \in SUBSET Matches /\ b \in SUBSET Matches /\ d \in SUBSET Matches
      /\ e \in SUBSET Matches
      /\ AtMostOne(a) /\ AtMostOne(b) /\ AtMostOne(d) /\ AtMostOne(e)
  BY FolderHolds, PackageFunctionHolds, PlainFunctionHolds, PlainClassHolds
     DEF FunctionOf, ClassIn
<1>2. c \in SUBSET Matches /\ AtMostOne(c)
  <2>1. CASE Len(name) = 1
    BY <2>1, StaticHolds DEF AtMostOne
  <2>2. CASE Len(name) # 1
    BY <2>2, StaticHolds DEF ClassIn
  <2> QED BY <2>1, <2>2
<1>3. /\ PushAllOfRoot(list, name, r) = le
      /\ RestInRoot(name, r, f) =
           FirstIn(<<Without(a, f), Without(b, f), Without(c, f), Without(d, f), Without(e, f)>>)
  BY DEF PushAllOfRoot, RestInRoot
<1> HIDE DEF a, b, c, d, e, la, lb, lc, ld, le
<1>4. Tidy(la) /\ Rest(la, f) = IF Rest(list, f) # {} THEN Rest(list, f) ELSE Without(a, f)
  BY <1>1, PushKeepsRest DEF la
<1>5. Tidy(lb) /\ Rest(lb, f) = IF Rest(la, f) # {} THEN Rest(la, f) ELSE Without(b, f)
  BY <1>1, <1>4, PushKeepsRest DEF lb
<1>6. Tidy(lc) /\ Rest(lc, f) = IF Rest(lb, f) # {} THEN Rest(lb, f) ELSE Without(c, f)
  BY <1>2, <1>5, PushKeepsRest DEF lc
<1>7. Tidy(ld) /\ Rest(ld, f) = IF Rest(lc, f) # {} THEN Rest(lc, f) ELSE Without(d, f)
  BY <1>1, <1>6, PushKeepsRest DEF ld
<1>8. Tidy(le) /\ Rest(le, f) = IF Rest(ld, f) # {} THEN Rest(ld, f) ELSE Without(e, f)
  BY <1>1, <1>7, PushKeepsRest DEF le
<1>9. FirstIn(<<Without(a, f), Without(b, f), Without(c, f), Without(d, f), Without(e, f)>>) =
        IF Without(a, f) # {} THEN Without(a, f) ELSE IF Without(b, f) # {} THEN Without(b, f)
        ELSE IF Without(c, f) # {} THEN Without(c, f)
        ELSE IF Without(d, f) # {} THEN Without(d, f) ELSE Without(e, f)
  BY FirstOfFive
<1>10. Rest(le, f) = IF Rest(list, f) # {} THEN Rest(list, f)
         ELSE FirstIn(<<Without(a, f), Without(b, f), Without(c, f), Without(d, f), Without(e, f)>>)
  BY <1>4, <1>5, <1>6, <1>7, <1>8, <1>9
<1> QED BY <1>3, <1>8, <1>10

LEMMA ListedRest ==
  ASSUME RInv, NEW name \in Names, NEW f
  PROVE  /\ Tidy(ResolveAllCallables(name))
         /\ Rest(ResolveAllCallables(name), f) =
              FirstIn(<<Without(PrivateFunction(name), f),
                        FirstIn([i \in DOMAIN roots |-> RestInRoot(name, roots[i], f)])>>)
<1> DEFINE n == Len(roots)
           l == ListedUpTo(name)
           private == PrivateFunction(name)
           own == Without(private, f)
           places(k) == [i \in 1 .. k |-> RestInRoot(name, roots[i], f)]
           Good(k) == Tidy(l[k]) /\ Rest(l[k], f) = FirstIn(<<own, FirstIn(places(k))>>)
           Bad == {k \in 0 .. n : ~ Good(k)}
<1>1. OneOfAName /\ name \in LookupNames /\ n \in Nat /\ DOMAIN roots = 1 .. n
  BY ResolverAssumption DEF RInv, LookupNames, RootsAreGiven
<1>2. l[0] = PushUnique(<< >>, private) /\ \A i \in 1 .. n : l[i] = PushAllOfRoot(l[i - 1], name, roots[i])
  BY <1>1, ListedUpToFollows
<1>3. private \in SUBSET Matches /\ AtMostOne(private)
  BY <1>1, PrivateHolds DEF FunctionOf
<1>4. ResolveAllCallables(name) = l[n]
  BY DEF ResolveAllCallables
<1>5. [i \in DOMAIN roots |-> RestInRoot(name, roots[i], f)] = places(n)
  BY <1>1
<1> HIDE DEF l, private, n
<1>6. Bad = {}
  <2> SUFFICES ASSUME Bad # {} PROVE FALSE
    OBVIOUS
  <2>1. PICK k \in Bad : \A j \in Bad : k <= j
    <3>1. Bad \in SUBSET Nat
      BY <1>1
    <3> HIDE DEF Bad
    <3> QED BY <3>1, Smallest
  <2>2. k \in 0 .. n /\ ~ Good(k)
    BY <2>1
  <2>3. CASE k = 0
    <3>1. Tidy(<< >>) /\ Rest(<< >>, f) = {}
      <4>1. Tidy(<< >>)
        BY DEF Tidy, IsListing
      <4> DEFINE none == [i \in DOMAIN << >> |-> Without(<< >>[i], f)]
      <4>2. 0 \in Nat /\ DOMAIN none = 1 .. 0 /\ \A i \in 1 .. 0 : none[i] = {}
        OBVIOUS
      <4>3. Rest(<< >>, f) = FirstIn(none)
        BY DEF Rest
      <4> HIDE DEF none
      <4>4. FirstIn(none) = {}
        BY <4>2, FirstIsNone
      <4> QED BY <4>1, <4>3, <4>4
    <3>2. Tidy(l[0]) /\ Rest(l[0], f) = own
      BY <1>2, <1>3, <3>1, PushKeepsRest
    <3>3. FirstIn(places(0)) = {}
      <4>1. 0 \in Nat /\ DOMAIN places(0) = 1 .. 0 /\ \A i \in 1 .. 0 : places(0)[i] = {}
        OBVIOUS
      <4> HIDE DEF places
      <4> QED BY <4>1, FirstIsNone
    <3>4. FirstIn(<<own, FirstIn(places(0))>>) = own
      BY <3>3, FirstOfTwo
    <3> QED BY <2>2, <2>3, <3>2, <3>4
  <2>4. CASE k # 0
    <3>1. k - 1 \in 0 .. n /\ ~ (k <= k - 1) /\ k \in 1 .. n /\ k \in Nat
      BY <1>1, <2>2, <2>4
    <3>2. Good(k - 1)
      BY <2>1, <3>1
    <3> DEFINE list == l[k - 1]
               r == roots[k]
               p == places(k)
               q == places(k - 1)
    <3>3. Tidy(list) /\ Rest(list, f) = FirstIn(<<own, FirstIn(q)>>)
      BY <3>2
    <3>4. l[k] = PushAllOfRoot(list, name, r)
      BY <1>2, <3>1
    <3>5. /\ DOMAIN p = 1 .. k /\ DOMAIN q = 1 .. k - 1
          /\ \A i \in 1 .. k - 1 : q[i] = p[i]
          /\ p[k] = RestInRoot(name, r, f)
      BY <3>1
    <3> HIDE DEF list, r, p, q, own
    <3>6. Tidy(l[k]) /\ Rest(l[k], f) = IF Rest(list, f) # {} THEN Rest(list, f) ELSE p[k]
      <4>1. /\ Tidy(PushAllOfRoot(list, name, r))
            /\ Rest(PushAllOfRoot(list, name, r), f) =
                 IF Rest(list, f) # {} THEN Rest(list, f) ELSE RestInRoot(name, r, f)
        <5>1. Tidy(list)
          BY <3>3
        <5> QED BY <1>1, <5>1, PassKeepsRest
      <4> QED BY <3>4, <3>5, <4>1
    <3>7. FirstIn(p) = IF FirstIn(q) # {} THEN FirstIn(q) ELSE p[k]
      BY <2>4, <3>1, <3>5, FirstOfMore
    <3>8. /\ FirstIn(<<own, FirstIn(p)>>) = IF own # {} THEN own ELSE FirstIn(p)
          /\ FirstIn(<<own, FirstIn(q)>>) = IF own # {} THEN own ELSE FirstIn(q)
      BY FirstOfTwo
    <3>9. Rest(l[k], f) = FirstIn(<<own, FirstIn(p)>>)
      BY <3>3, <3>6, <3>7, <3>8
    <3> QED BY <2>2, <3>6, <3>9 DEF p
  <2> QED BY <2>3, <2>4
<1>7. Good(n)
  <2>1. n \in 0 .. n
    BY <1>1
  <2>2. n \notin Bad
    BY <1>6
  <2> QED BY <2>1, <2>2
<1> QED BY <1>4, <1>5, <1>7 DEF private

\* When f is the file that the call means, the rest of the listing begins with
\* its second match.
LEMMA SecondIsRest ==
  ASSUME NEW list, Tidy(list), NEW m \in FirstIn(list)
  PROVE  Rest(list, m.file) = IF Len(list) > 1 THEN list[2] ELSE {}
<1> DEFINE n == Len(list)
           f == m.file
           q == [i \in DOMAIN list |-> Without(list[i], f)]
<1>1. n \in Nat /\ DOMAIN list = 1 .. n /\ IsListing(list) /\ \A i \in 1 .. n : list[i] # {}
  BY DEF Tidy, IsListing
<1>2. n # 0 /\ m \in list[1]
  BY <1>1, FirstOfListing
<1>3. 1 \in 1 .. n
  BY <1>1, <1>2
<1>4. DOMAIN q = 1 .. n /\ (\A i \in 1 .. n : q[i] = Without(list[i], f)) /\ Rest(list, f) = FirstIn(q)
  BY <1>1 DEF Rest
<1>5. Without(list[1], f) = {}
  <2>1. \A x \in list[1] : x = m
    BY <1>1, <1>2, <1>3 DEF Tidy, AtMostOne
  <2> QED BY <2>1 DEF Without
<1>6. ASSUME NEW i \in 1 .. n, i # 1
      PROVE  Without(list[i], f) = list[i]
  <2>1. \A x \in list[i] : x.file # f
    BY <1>1, <1>2, <1>3, <1>6 DEF Tidy
  <2> QED BY <2>1 DEF Without
<1> HIDE DEF q, n, f
<1>7. CASE n > 1
  <2>1. 2 \in 1 .. n
    BY <1>1, <1>7
  <2>2. q[2] = list[2] /\ q[2] # {}
    BY <1>1, <1>4, <1>6, <2>1
  <2>3. \A j \in 1 .. 2 - 1 : q[j] = {}
    BY <1>3, <1>4, <1>5
  <2>4. FirstIn(q) = q[2]
    BY <1>1, <1>4, <2>1, <2>2, <2>3, FirstIs
  <2> QED BY <1>4, <1>7, <2>2, <2>4 DEF n, f
<1>8. CASE ~ (n > 1)
  <2>1. n = 1
    BY <1>1, <1>2, <1>8
  <2>2. \A i \in 1 .. n : q[i] = {}
    BY <1>4, <1>5, <2>1
  <2>3. FirstIn(q) = {}
    BY <1>1, <1>4, <2>2, FirstIsNone
  <2> QED BY <1>4, <1>8, <2>3 DEF n, f
<1> QED BY <1>7, <1>8


-----------------------------------------------------------------------------
(***************************************************************************)
(* What comes forward when the file that a call means goes.                *)
(***************************************************************************)

\* Two rows of places, the second with nothing where the first has nothing:
\* they begin alike, or the first begins where they differ.
LEMMA FirstDifference ==
  ASSUME NEW n \in Nat, NEW V, NEW W, DOMAIN V = 1 .. n, DOMAIN W = 1 .. n,
         \A i \in 1 .. n : V[i] = {} => W[i] = {}
  PROVE  \/ FirstIn(V) = FirstIn(W)
         \/ \E k \in 1 .. n :
              /\ V[k] # W[k] /\ V[k] # {} /\ FirstIn(V) = V[k]
              /\ \A j \in 1 .. k - 1 : V[j] = {}
<1>1. CASE FirstIn(V) = {}
  <2>1. \A i \in 1 .. n : W[i] = {}
    BY <1>1, FirstIsNone
  <2> QED BY <1>1, <2>1, FirstIsNone
<1>2. CASE FirstIn(V) # {}
  <2>1. PICK x : x \in FirstIn(V)
    BY <1>2
  <2>2. PICK k \in 1 .. n : /\ x \in V[k] /\ \A j \in 1 .. k - 1 : V[j] = {}
                            /\ FirstIn(V) = V[k]
    BY <2>1, FirstIsOf
  <2>3. CASE V[k] = W[k]
    <3>1. W[k] # {} /\ \A j \in 1 .. k - 1 : W[j] = {}
      BY <2>2, <2>3
    <3>2. FirstIn(W) = W[k]
      BY <3>1, FirstIs
    <3> QED BY <2>2, <2>3, <3>2
  <2> QED BY <2>2, <2>3
<1> QED BY <1>1, <1>2

\* The folder of a class lies beside the class file of the same name.
LEMMA FolderDirIs ==
  ASSUME NEW r \in Dirs, NEW name \in LookupNames
  PROVE  /\ Front(FolderDir(name, r)) = PackageDir(r, name)
         /\ Last(FolderDir(name, r))[1] = "@"
<1>1. PackageDir(r, name) \in Seq(Segments) /\ Last(FolderDir(name, r)) = Class(Last(name))
  BY PackageDirIs
<1>2. Front(Append(PackageDir(r, name), Class(Last(name)))) = PackageDir(r, name)
  BY <1>1, FrontOfAppend
<1> QED BY <1>1, <1>2 DEF FolderDir, Class

\* Only when the call meant a method of the class f defines can a class file
\* that f hid come forward.
LEMMA MethodWasMeant ==
  ASSUME RInv, NEW name \in LookupNames, NEW f, NEW m \in ResolveCallable(name), m.file = f,
         NEW k \in DOMAIN roots,
         InRootNext(name, roots[k], f) # RestInRoot(name, roots[k], f),
         InRootNext(name, roots[k], f) # {},
         \A j \in 1 .. k - 1 : InRootNext(name, roots[j], f) = {}
  PROVE  m.name # name
<1> DEFINE class == Front(name)
           V(i) == InRootNext(name, roots[i], f)
           W(i) == RestInRoot(name, roots[i], f)
<1>1. /\ OneOfAName /\ RootsAreGiven /\ Len(roots) \in Nat /\ DOMAIN roots = 1 .. Len(roots)
      /\ \A i \in DOMAIN roots : roots[i] \in Dirs
  BY DEF RInv, RootsAreGiven
<1>2. /\ Len(name) # 1 /\ f.dir = FolderDir(class, roots[k]) /\ f.name = Last(class)
      /\ V(k) = PlainClass(class, roots[k])
      /\ \A x \in PlainClass(class, roots[k]) : x.file # f
  BY <1>1, RootNext
<1>3. class \in LookupNames /\ Len(class) = Len(name) - 1 /\ Len(name) \in Nat /\ Len(name) > 1
  BY <1>2, FrontOfName
<1>4. Front(f.dir) = PackageDir(roots[k], class) /\ Last(f.dir)[1] = "@"
  BY <1>1, <1>2, <1>3, FolderDirIs
<1> SUFFICES ASSUME m.name = name PROVE FALSE
  OBVIOUS
<1>5. PICK i \in DOMAIN roots : /\ m \in CallableIn(name, roots[i])
                                /\ \A j \in 1 .. i - 1 : CallableIn(name, roots[j]) = {}
  <2>1. PrivateFunction(name) = {}
    BY <1>3 DEF PrivateFunction
  <2> QED BY <1>1, <2>1, CallableOfRoots
<1> DEFINE r == roots[i]
<1>6. r \in Dirs
  BY <1>1
<1>7. Last(PackageDir(r, name))[1] # "@"
  BY <1>2, <1>6, PackageDirIs DEF Package
<1>8. m \in FolderClass(name, r)
  <2>1. m \notin PackageFunction(name, r)
    BY <1>1, <1>4, <1>7, PackageFunctionHolds DEF FunctionOf
  <2>2. m \notin StaticClass(name, r)
    <3>1. m \in StaticClass(name, r) => m.name = class
      <4>1. ClassIn(StaticClass(name, r), class, {FolderDir(class, r), PackageDir(r, class)})
        BY <1>1, <1>2, StaticHolds
      <4> QED BY <4>1 DEF ClassIn
    <3>2. class # name
      BY <1>3
    <3> QED BY <3>1, <3>2
  <2>3. m \notin PlainFunction(name, r)
    BY <1>3 DEF PlainFunction
  <2>4. m \notin PlainClass(name, r)
    BY <1>1, <1>4, <1>7, PlainClassHolds DEF ClassIn
  <2> QED BY <1>5, <2>1, <2>2, <2>3, <2>4, SomethingInRoot
<1>9. f.dir = FolderDir(name, r) /\ f.name = Last(name)
  <2>1. m.file \in AnyFile(FolderDir(name, r), Last(name))
    BY <1>8 DEF FolderClass, ClassOf, Match, FolderDir
  <2> QED BY <1>1, <2>1, FilesOfDir
<1>10. PackageDir(r, name) = PackageDir(roots[k], class) /\ Last(name) = Last(class)
  <2>1. Front(f.dir) = PackageDir(r, name)
    BY <1>6, <1>9, FolderDirIs
  <2> QED BY <1>2, <1>4, <1>9, <2>1
<1>11. Without(PlainClass(name, r), f) # {}
  <2>1. PICK x : x \in PlainClass(class, roots[k])
    BY <1>2
  <2>2. x.file \in ClassFile(PackageDir(roots[k], class), Last(class)) /\ x.file # f
    BY <1>2, <2>1 DEF PlainClass, ClassOf, Match
  <2> DEFINE y == [as |-> "class", name |-> name, file |-> x.file]
  <2>3. y \in PlainClass(name, r) /\ y.file = x.file
    BY <1>10, <2>2 DEF PlainClass, ClassOf, Match
  <2> HIDE DEF y
  <2> QED BY <2>2, <2>3 DEF Without
<1>12. V(i) # {}
  BY <1>1, <1>11, RootNext
<1>13. ~ (i < k)
  <2>1. i < k => i \in 1 .. k - 1
    BY <1>1
  <2> QED BY <1>12, <2>1
<1>14. ~ (k < i)
  <2>1. k < i => k \in 1 .. i - 1
    BY <1>1
  <2>2. CallableIn(name, roots[k]) = {} => V(k) = {}
    BY <1>1, RootNext
  <2> QED BY <1>5, <2>1, <2>2
<1>15. i = k
  BY <1>1, <1>13, <1>14
<1>16. /\ Len(PackageDir(r, name)) = Len(r) + (Len(name) - 1)
       /\ Len(PackageDir(r, class)) = Len(r) + (Len(class) - 1)
  BY <1>3, <1>6, PackageDirIs
<1>17. Len(r) \in Nat
  BY <1>6 DEF Dirs
<1>18. PackageDir(r, name) = PackageDir(r, class)
  BY <1>10, <1>15
<1> HIDE DEF class, V, W, r
<1> QED BY <1>3, <1>16, <1>17, <1>18


\* What comes forward when a file goes, at one state.
LEMMA ComesForward ==
  ASSUME RInv, NEW f \in files, files' = files \ {f}, UNCHANGED <<sourceDir, roots>>,
         NEW name \in Names, NEW m \in ResolveCallable(name), m.file = f
  PROVE  LET all == ResolveAllCallables(name)
             next == ResolveCallable(name)'
         IN  \/ next = IF Len(all) > 1 THEN all[2] ELSE {}
             \/ m.name # name /\ Last(f.dir)[1] = "@"
                  /\ {n.file : n \in next} = ClassFile(Front(f.dir), f.name)
<1> DEFINE all == ResolveAllCallables(name)
           n == Len(roots)
           V == [i \in DOMAIN roots |-> InRootNext(name, roots[i], f)]
           W == [i \in DOMAIN roots |-> RestInRoot(name, roots[i], f)]
           own == Without(PrivateFunction(name), f)
<1>1. /\ OneOfAName /\ RootsAreGiven /\ n \in Nat /\ DOMAIN roots = 1 .. n
      /\ name \in LookupNames /\ \A i \in DOMAIN roots : roots[i] \in Dirs
  BY ResolverAssumption DEF RInv, RootsAreGiven, LookupNames
<1>2. ResolveCallable(name)' = FirstIn(<<own, FirstIn(V)>>)
  <2> DEFINE rs == roots
             places == [i \in DOMAIN rs |-> InRootNext(name, rs[i], f)]
  <2>1. roots = rs /\ roots' = rs
    OBVIOUS
  <2>2. places = V
    OBVIOUS
  <2> HIDE DEF rs, V
  <2>3. ResolveCallable(name)' = FirstIn(<<own, FirstIn(places)>>)
    BY <2>1, ResolveNext
  <2> QED BY <2>2, <2>3
<1>3. FirstIn(<<own, FirstIn(W)>>) = IF Len(all) > 1 THEN all[2] ELSE {}
  <2>1. Tidy(all) /\ Rest(all, f) = FirstIn(<<own, FirstIn(W)>>)
    BY ListedRest
  <2>2. m \in FirstIn(all)
    BY ListedFirst
  <2> HIDE DEF all, own, W
  <2> QED BY <2>1, <2>2, SecondIsRest
<1>4. /\ DOMAIN V = 1 .. n /\ DOMAIN W = 1 .. n
      /\ \A i \in 1 .. n : V[i] = InRootNext(name, roots[i], f) /\ W[i] = RestInRoot(name, roots[i], f)
  BY <1>1
<1> HIDE DEF all, V, W, n
<1>5. \A i \in 1 .. n : V[i] = {} => W[i] = {}
  BY <1>1, <1>4, RootNext
<1>6. CASE FirstIn(V) = FirstIn(W)
  BY <1>2, <1>3, <1>6 DEF all
<1>7. ASSUME NEW k \in 1 .. n, V[k] # W[k], V[k] # {}, FirstIn(V) = V[k],
             \A j \in 1 .. k - 1 : V[j] = {}
      PROVE  /\ m.name # name /\ Last(f.dir)[1] = "@"
             /\ {x.file : x \in ResolveCallable(name)'} = ClassFile(Front(f.dir), f.name)
  <2> DEFINE class == Front(name)
             r == roots[k]
  <2>1. /\ k \in DOMAIN roots /\ InRootNext(name, r, f) # RestInRoot(name, r, f)
        /\ InRootNext(name, r, f) # {}
        /\ \A j \in 1 .. k - 1 : InRootNext(name, roots[j], f) = {}
    <3>1. \A j \in 1 .. k - 1 : j \in 1 .. n
      BY <1>1
    <3> QED BY <1>1, <1>4, <1>7, <3>1
  <2>2. m.name # name
    BY <1>1, <2>1, MethodWasMeant
  <2>3. /\ Len(name) # 1 /\ f.dir = FolderDir(class, r) /\ f.name = Last(class)
        /\ InRootNext(name, r, f) = PlainClass(class, r)
    BY <1>1, <2>1, RootNext
  <2>4. class \in LookupNames /\ Len(name) > 1
    BY <1>1, <2>3, FrontOfName
  <2>5. Front(f.dir) = PackageDir(r, class) /\ Last(f.dir)[1] = "@"
    BY <1>1, <2>1, <2>3, <2>4, FolderDirIs
  <2>6. own = {}
    BY <2>4 DEF PrivateFunction, Without
  <2>7. ResolveCallable(name)' = FirstIn(V)
    BY <1>2, <2>6, FirstOfTwo
  <2>8. FirstIn(V) = PlainClass(class, r)
    BY <1>4, <1>7, <2>3
  <2>9. {x.file : x \in PlainClass(class, r)} = ClassFile(PackageDir(r, class), Last(class))
    <3> DEFINE found == ClassFile(PackageDir(r, class), Last(class))
               place == PlainClass(class, r)
    <3>1. place = {[as |-> "class", name |-> class, file |-> g] : g \in found}
      BY DEF PlainClass, ClassOf, Match
    <3> HIDE DEF found, place, class
    <3>2. \A x \in place : x.file \in found
      BY <3>1
    <3>3. ASSUME NEW g \in found
          PROVE  \E x \in place : x.file = g
      <4> DEFINE x == [as |-> "class", name |-> class, file |-> g]
      <4>1. x \in place
        BY <3>1
      <4>2. x.file = g
        OBVIOUS
      <4> HIDE DEF x
      <4> QED BY <4>1, <4>2
    <3>4. {x.file : x \in place} = found
      BY <3>2, <3>3
    <3> QED BY <3>4 DEF found, place
  <2> QED BY <2>2, <2>3, <2>5, <2>7, <2>8, <2>9
<1>8. \/ FirstIn(V) = FirstIn(W)
      \/ \E k \in 1 .. n :
           /\ V[k] # W[k] /\ V[k] # {} /\ FirstIn(V) = V[k]
           /\ \A j \in 1 .. k - 1 : V[j] = {}
  BY <1>1, <1>4, <1>5, FirstDifference
<1> QED BY <1>6, <1>7, <1>8

\* When the file that a call means goes, the call means what `which -all` listed
\* second: resolve_callable goes on through the places where resolve_all_callables
\* went on.  Only a class file that the folder of the same class hid from the list,
\* when a method of the class was called, may come forward before it.
THEOREM ShadowedStayInOrder == Spec => ShadowedComeForward
<1> DEFINE Comes ==
      \A f \in files \ files', name \in Names : \A m \in ResolveCallable(name) :
        m.file = f =>
          LET all == ResolveAllCallables(name)
              next == ResolveCallable(name)'
          IN  \/ next = IF Len(all) > 1 THEN all[2] ELSE {}
              \/ m.name # name /\ Last(f.dir)[1] = "@"
                   /\ {n.file : n \in next} = ClassFile(Front(f.dir), f.name)
<1>1. RInv /\ [Next]_vars => [Comes]_vars
  <2> SUFFICES ASSUME RInv, Next, NEW f \in files \ files', NEW name \in Names,
                      NEW m \in ResolveCallable(name), m.file = f
               PROVE  LET all == ResolveAllCallables(name)
                          next == ResolveCallable(name)'
                      IN  \/ next = IF Len(all) > 1 THEN all[2] ELSE {}
                          \/ m.name # name /\ Last(f.dir)[1] = "@"
                               /\ {n.file : n \in next} = ClassFile(Front(f.dir), f.name)
    OBVIOUS
  <2>1. files' = files \ {f} /\ UNCHANGED <<sourceDir, roots>>
    <3>1. ASSUME NEW g \in Files, FileAppears(g)
          PROVE  FALSE
      BY <3>1 DEF FileAppears
    <3>2. ASSUME NEW g \in files, FileGoes(g)
          PROVE  files' = files \ {f} /\ UNCHANGED <<sourceDir, roots>>
      BY <3>2 DEF FileGoes
    <3> QED BY <3>1, <3>2 DEF Next
  <2> QED BY <2>1, ComesForward
<1> QED BY <1>1, RInvHolds, PTL DEF Spec, ShadowedComeForward
=============================================================================
