------------------------- MODULE Preprocessor_proofs -------------------------
(***************************************************************************)
(* Proofs about Preprocessor, for all builder files and any command line.  *)
(***************************************************************************)
EXTENDS Preprocessor, FiniteSetTheorems, NaturalsInduction, WellFoundedInduction, TLAPS

(***************************************************************************)
(* What the recursive loaders have done so far, in terms of a map that is  *)
(* being filled (the names m, what each lists in next) and of c, the       *)
(* foreach that have not ended.                                            *)
(***************************************************************************)

\* Nothing is in m but what seed leads to.
Grown(m, seed, next) ==
  \A t \in SUBSET m : (seed \cap m \subseteq t /\ \A n \in t : next[n] \cap m \subseteq t) => t = m

Reached(d, m, c) == d \in m \/ \E i \in 1 .. Len(c) : d \in c[i]

\* What a name of m lists is in m, or will be visited.
Covered(m, next, c, rest) ==
  \A n \in m : \A d \in next[n] : d \in m \/ n \in rest \/ \E i \in 1 .. Len(c) : d \in c[i]

\* Some of next are never done: each lists another one of them.
Endless(s, next) == s # {} /\ \A n \in s : next[n] \cap s # {}

\* No cycle of m is left behind: one of its names will be visited.
CyclesAhead(m, next, c, rest) ==
  \A s \in SUBSET m :
    Endless(s, next) => s \cap rest # {} \/ \E i \in 1 .. Len(c) : c[i] \cap s # {}

\* The k innermost foreach are those of calls for path[1], path[2], ... each
\* called by the next one; those outside them run over a part of base.
CalledAlong(path, c, k, m, next, base) ==
  /\ path \in [1 .. k -> m]
  /\ \A i \in 1 .. k : c[i] \subseteq next[path[i]]
  /\ \A i \in 1 .. k : i < k => path[i] \in next[path[i + 1]]
  /\ \A i \in 1 .. Len(c) : i > k => c[i] \subseteq base

Called(c, k, m, next, base) == \E path : CalledAlong(path, c, k, m, next, base)

-----------------------------------------------------------------------------
(* The inductive invariant.                                                *)

Wanted == {e \in Enabled : place[e] # "nowhere"}

LibrariesWanted == UNION {extensionMap[e].deps : e \in DOMAIN extensionMap}

\* The options: which e the last one for it leaves on the list.
Given(e) == {i \in 1 .. Len(options) : options[i][2] = e}

OptionsOK ==
  /\ stage # "options" => options = <<>>
  /\ \A e \in Extension :
       /\ extEnabled[e] <= Len(options) + 1
       /\ (\A i \in Given(e) : options[i][1] = "-") =>
            extEnabled[e] <= IF Given(e) = {} THEN 1 ELSE 0
       /\ \A i \in Given(e) :
            options[i][1] = "+" /\ (\A j \in Given(e) : j <= i) => extEnabled[e] > 0

\* Every file is read once at most.
CountsOK == listed = [extensions |-> Cardinality(DOMAIN extensionMap),
                      libraries |-> Cardinality(DOMAIN libraryMap)]

BeforeOK ==
  /\ stage \in {"target", "options", "enabled"} => calls = <<>>
  /\ stage \in {"target", "options"} => DOMAIN extensionMap = {}
  /\ stage \in {"target", "options", "enabled", "extensions"} => DOMAIN libraryMap = {}

EnabledOK ==
  stage = "enabled" =>
    /\ DOMAIN extensionMap \subseteq Wanted /\ Wanted \subseteq DOMAIN extensionMap \cup todo
    /\ todo \cap DOMAIN extensionMap = {} /\ todo \subseteq Enabled

ExtensionsOK ==
  stage = "extensions" =>
    /\ Wanted \subseteq DOMAIN extensionMap /\ todo \subseteq DOMAIN extensionMap
    /\ Grown(DOMAIN extensionMap, Wanted, dependentExtensions)
    /\ Covered(DOMAIN extensionMap, dependentExtensions, calls, todo)
    /\ CyclesAhead(DOMAIN extensionMap, dependentExtensions, calls, todo)
    /\ Called(calls, Len(calls), DOMAIN extensionMap, dependentExtensions, {})

\* All extensions are known.
LoadedOK ==
  stage \in {"libraries", "done"} =>
    /\ LeastClosed(DOMAIN extensionMap, Wanted, dependentExtensions)
    /\ ~Cyclic(dependentExtensions)

LibrariesOK ==
  stage = "libraries" =>
    /\ todo \subseteq DOMAIN extensionMap
    /\ Grown(DOMAIN libraryMap, LibrariesWanted, libraryMap)
    /\ Called(calls, Len(calls) - 1, DOMAIN libraryMap, libraryMap, LibrariesWanted)
    /\ calls # <<>> => Extension # {}

\* What is needed is there or will be visited, by then and to its end.
VisitedOK ==
  stage = "libraries" =>
    /\ \A e \in (DOMAIN extensionMap) \ todo : \A d \in extensionMap[e].deps :
         Reached(d, DOMAIN libraryMap, calls)
    /\ Covered(DOMAIN libraryMap, libraryMap, calls, {})
    /\ CyclesAhead(DOMAIN libraryMap, libraryMap, calls, {})

DoneOK ==
  /\ stage = "done" => /\ LeastClosed(DOMAIN libraryMap, LibrariesWanted, libraryMap)
                       /\ ~Cyclic(libraryMap)
  /\ stage = "exhausted" => Cyclic(dependentExtensions) \/ Cyclic(libraryMap)

IInv ==
  /\ PreprocessorTypeOK /\ OptionsOK /\ CountsOK /\ BeforeOK /\ EnabledOK
  /\ ExtensionsOK /\ LoadedOK /\ LibrariesOK /\ VisitedOK /\ DoneOK

-----------------------------------------------------------------------------
(* Lemmas about the loaders, for any map.                                  *)

LEMMA PushFields ==
  ASSUME NEW X, NEW c \in Seq(SUBSET X), c # <<>>, NEW n, NEW deps \in SUBSET X
  PROVE  LET p == <<deps>> \o [c EXCEPT ![1] = @ \ {n}]
         IN  /\ p \in Seq(SUBSET X) /\ Len(p) = Len(c) + 1 /\ Len(c) \in Nat \ {0}
             /\ p[1] = deps /\ p[2] = c[1] \ {n}
             /\ \A i \in 3 .. Len(c) + 1 : p[i] = c[i - 1]
<1> DEFINE d == [c EXCEPT ![1] = @ \ {n}]
<1>1. Len(c) \in Nat \ {0} /\ c \in [1 .. Len(c) -> SUBSET X] OBVIOUS
<1>2. d \in Seq(SUBSET X) /\ Len(d) = Len(c) /\ d[1] = c[1] \ {n}
      /\ \A i \in 2 .. Len(c) : d[i] = c[i]
  BY <1>1
<1>3. <<deps>> \in Seq(SUBSET X) /\ Len(<<deps>>) = 1 /\ <<deps>>[1] = deps OBVIOUS
<1> HIDE DEF d
<1>4. /\ <<deps>> \o d \in Seq(SUBSET X) /\ Len(<<deps>> \o d) = Len(c) + 1
      /\ (<<deps>> \o d)[1] = deps
      /\ \A i \in 2 .. Len(c) + 1 : (<<deps>> \o d)[i] = d[i - 1]
  BY <1>1, <1>2, <1>3
<1>5. (<<deps>> \o d)[2] = c[1] \ {n} /\ \A i \in 3 .. Len(c) + 1 : (<<deps>> \o d)[i] = c[i - 1]
  BY <1>1, <1>2, <1>4
<1> QED BY <1>1, <1>4, <1>5 DEF d

LEMMA PopFields ==
  ASSUME NEW X, NEW c \in Seq(SUBSET X), c # <<>>
  PROVE  /\ Tail(c) \in Seq(SUBSET X) /\ Len(Tail(c)) = Len(c) - 1 /\ Len(c) \in Nat \ {0}
         /\ \A i \in 1 .. Len(c) - 1 : Tail(c)[i] = c[i + 1]
         /\ Head(c) = c[1]
OBVIOUS

\* A name that is wanted, or that a name of m lists, may be added.
LEMMA GrownMore ==
  ASSUME NEW m, NEW seed, NEW next, Grown(m, seed, next), NEW n, n \notin m, NEW next2,
         \A k \in m : next2[k] = next[k], n \in seed \/ \E k \in m : n \in next[k]
  PROVE  Grown(m \cup {n}, seed, next2)
<1> SUFFICES ASSUME NEW t \in SUBSET (m \cup {n}), seed \cap (m \cup {n}) \subseteq t,
                    \A k \in t : next2[k] \cap (m \cup {n}) \subseteq t
             PROVE  t = m \cup {n}
  BY DEF Grown
<1>1. t \ {n} \in SUBSET m /\ seed \cap m \subseteq t \ {n} OBVIOUS
<1>2. \A k \in t \ {n} : next[k] \cap m \subseteq t \ {n} BY <1>1
<1>3. t \ {n} = m BY <1>1, <1>2 DEF Grown
<1>4. n \in t
  <2>1. CASE n \in seed BY <2>1
  <2>2. CASE \E k \in m : n \in next[k] BY <1>3, <2>2
  <2> QED BY <2>1, <2>2
<1> QED BY <1>3, <1>4

\* A call for n, which is in the map from then on.
LEMMA VisitCovers ==
  ASSUME NEW X, NEW c \in Seq(SUBSET X), c # <<>>, NEW m, NEW next, NEW rest,
         Covered(m, next, c, rest), NEW n \in c[1], NEW next2, next2[n] \in SUBSET X,
         \A k \in m : next2[k] = next[k]
  PROVE  Covered(m \cup {n}, next2, <<next2[n]>> \o [c EXCEPT ![1] = @ \ {n}], rest)
<1> DEFINE p == <<next2[n]>> \o [c EXCEPT ![1] = @ \ {n}]
<1>1. /\ Len(p) = Len(c) + 1 /\ Len(c) \in Nat \ {0} /\ p[1] = next2[n] /\ p[2] = c[1] \ {n}
      /\ \A i \in 3 .. Len(c) + 1 : p[i] = c[i - 1]
  BY PushFields
<1> HIDE DEF p
<1> SUFFICES ASSUME NEW k \in m \cup {n}, NEW d \in next2[k], d \notin m \cup {n}, k \notin rest
             PROVE  \E i \in 1 .. Len(p) : d \in p[i]
  BY DEF Covered, p
<1>2. CASE k = n
  <2>1. 1 \in 1 .. Len(p) /\ d \in p[1] BY <1>1, <1>2
  <2> QED BY <2>1
<1>3. CASE k # n
  <2>1. k \in m /\ d \in next[k] BY <1>3
  <2>2. PICK i \in 1 .. Len(c) : d \in c[i] BY <2>1 DEF Covered
  <2>3. i + 1 \in 1 .. Len(p) /\ d \in p[i + 1]
    <3>1. CASE i = 1 BY <1>1, <2>2, <3>1
    <3>2. CASE i # 1
      <4>1. i + 1 \in 3 .. Len(c) + 1 /\ (i + 1) - 1 = i BY <1>1, <2>2, <3>2
      <4> QED BY <1>1, <2>2, <4>1
    <3> QED BY <3>1, <3>2
  <2> QED BY <2>3
<1> QED BY <1>2, <1>3

LEMMA VisitReaches ==
  ASSUME NEW X, NEW c \in Seq(SUBSET X), c # <<>>, NEW m, NEW d, Reached(d, m, c),
         NEW n \in c[1], NEW deps \in SUBSET X
  PROVE  Reached(d, m \cup {n}, <<deps>> \o [c EXCEPT ![1] = @ \ {n}])
<1> DEFINE p == <<deps>> \o [c EXCEPT ![1] = @ \ {n}]
<1>1. /\ Len(p) = Len(c) + 1 /\ Len(c) \in Nat \ {0} /\ p[1] = deps /\ p[2] = c[1] \ {n}
      /\ \A i \in 3 .. Len(c) + 1 : p[i] = c[i - 1]
  BY PushFields
<1> HIDE DEF p
<1> SUFFICES ASSUME d \notin m \cup {n} PROVE \E i \in 1 .. Len(p) : d \in p[i]
  BY DEF Reached, p
<1>2. PICK i \in 1 .. Len(c) : d \in c[i] BY DEF Reached
<1>3. i + 1 \in 1 .. Len(p) /\ d \in p[i + 1]
  <2>1. CASE i = 1 BY <1>1, <1>2, <2>1
  <2>2. CASE i # 1
    <3>1. i + 1 \in 3 .. Len(c) + 1 /\ (i + 1) - 1 = i BY <1>1, <1>2, <2>2
    <3> QED BY <1>1, <1>2, <3>1
  <2> QED BY <2>1, <2>2
<1> QED BY <1>3

LEMMA VisitAhead ==
  ASSUME NEW X, NEW c \in Seq(SUBSET X), c # <<>>, NEW m, NEW next, NEW rest,
         CyclesAhead(m, next, c, rest), NEW n \in c[1], NEW next2, next2[n] \in SUBSET X,
         \A k \in m : next2[k] = next[k]
  PROVE  CyclesAhead(m \cup {n}, next2, <<next2[n]>> \o [c EXCEPT ![1] = @ \ {n}], rest)
<1> DEFINE p == <<next2[n]>> \o [c EXCEPT ![1] = @ \ {n}]
<1>1. /\ Len(p) = Len(c) + 1 /\ Len(c) \in Nat \ {0} /\ p[1] = next2[n] /\ p[2] = c[1] \ {n}
      /\ \A i \in 3 .. Len(c) + 1 : p[i] = c[i - 1]
  BY PushFields
<1> HIDE DEF p
<1> SUFFICES ASSUME NEW s \in SUBSET (m \cup {n}), Endless(s, next2), s \cap rest = {}
             PROVE  \E i \in 1 .. Len(p) : p[i] \cap s # {}
  BY DEF CyclesAhead, p
<1>2. CASE n \in s
  <2>1. 1 \in 1 .. Len(p) /\ p[1] \cap s # {} BY <1>1, <1>2 DEF Endless
  <2> QED BY <2>1
<1>3. CASE n \notin s
  <2>1. s \in SUBSET m /\ Endless(s, next) BY <1>3 DEF Endless
  <2>2. PICK i \in 1 .. Len(c) : c[i] \cap s # {} BY <2>1 DEF CyclesAhead
  <2>3. i + 1 \in 1 .. Len(p) /\ p[i + 1] \cap s # {}
    <3>1. CASE i = 1 BY <1>1, <1>3, <2>2, <3>1
    <3>2. CASE i # 1
      <4>1. i + 1 \in 3 .. Len(c) + 1 /\ (i + 1) - 1 = i BY <1>1, <2>2, <3>2
      <4> QED BY <1>1, <2>2, <4>1
    <3> QED BY <3>1, <3>2
  <2> QED BY <2>3
<1> QED BY <1>2, <1>3

LEMMA VisitCalled ==
  ASSUME NEW X, NEW c \in Seq(SUBSET X), c # <<>>, NEW k \in Int, k \in {Len(c), Len(c) - 1},
         NEW m, NEW next, NEW base, Called(c, k, m, next, base),
         NEW n \in c[1], NEW next2, next2[n] \in SUBSET X,
         \A q \in m : next2[q] = next[q]
  PROVE  Called(<<next2[n]>> \o [c EXCEPT ![1] = @ \ {n}], k + 1, m \cup {n}, next2, base)
<1> DEFINE p == <<next2[n]>> \o [c EXCEPT ![1] = @ \ {n}]
<1>1. /\ Len(p) = Len(c) + 1 /\ Len(c) \in Nat \ {0} /\ p[1] = next2[n] /\ p[2] = c[1] \ {n}
      /\ \A i \in 3 .. Len(c) + 1 : p[i] = c[i - 1]
  BY PushFields
<1>2. PICK path : CalledAlong(path, c, k, m, next, base) BY DEF Called
<1> HIDE DEF p
<1>a. k \in Nat BY <1>1
<1> DEFINE way == [i \in 1 .. k + 1 |-> IF i = 1 THEN n ELSE path[i - 1]]
<1>3. /\ way \in [1 .. k + 1 -> m \cup {n}] /\ way[1] = n
      /\ \A i \in 1 .. k : way[i + 1] = path[i] /\ path[i] \in m
  BY <1>2, <1>a DEF CalledAlong
<1> HIDE DEF way
<1>b. \A i \in 2 .. Len(c) + 1 : p[i] \subseteq c[i - 1]
  <2> SUFFICES ASSUME NEW i \in 2 .. Len(c) + 1 PROVE p[i] \subseteq c[i - 1]
    OBVIOUS
  <2>1. CASE i = 2 BY <1>1, <2>1
  <2>2. CASE i # 2 BY <1>1, <2>2
  <2> QED BY <2>1, <2>2
<1>4. ASSUME NEW i \in 1 .. k + 1 PROVE p[i] \subseteq next2[way[i]]
  <2>1. CASE i = 1 BY <1>1, <1>3, <2>1
  <2>2. CASE i # 1
    <3>1. PICK j \in 1 .. k : i = j + 1 /\ i - 1 = j BY <1>a, <2>2
    <3>2. p[i] \subseteq c[j] BY SMTT(30), <1>1, <1>a, <1>b, <3>1
    <3>3. c[j] \subseteq next[path[j]] BY <1>2, <3>1 DEF CalledAlong
    <3>4. way[i] = path[j] /\ path[j] \in m BY <1>3, <3>1
    <3> QED BY <3>2, <3>3, <3>4
  <2> QED BY <2>1, <2>2
<1>5. ASSUME NEW i \in 1 .. k + 1, i < k + 1 PROVE way[i] \in next2[way[i + 1]]
  <2>0. i \in 1 .. k BY <1>5, <1>a
  <2>1. way[i + 1] = path[i] /\ path[i] \in m BY <1>3, <2>0
  <2>2. CASE i = 1
    <3>1. n \in next[path[1]] BY <1>2, <2>0, <2>2 DEF CalledAlong
    <3> QED BY <1>3, <2>1, <2>2, <3>1
  <2>3. CASE i # 1
    <3>1. PICK j \in 1 .. k : i = j + 1 /\ j < k BY <1>5, <1>a, <2>0, <2>3
    <3>2. path[j] \in next[path[j + 1]] BY <1>2, <3>1 DEF CalledAlong
    <3>3. way[i] = path[j] BY <1>3, <3>1
    <3> QED BY <2>1, <3>1, <3>2, <3>3
  <2> QED BY <2>2, <2>3
<1>6. ASSUME NEW i \in 1 .. Len(p), i > k + 1 PROVE p[i] \subseteq base
  <2>1. PICK j \in 1 .. Len(c) : i = j + 1 /\ i - 1 = j /\ j > k BY <1>1, <1>6, <1>a
  <2>2. p[i] \subseteq c[j] BY <1>1, <1>b, <2>1
  <2> QED BY <1>2, <2>1, <2>2 DEF CalledAlong
<1>7. CalledAlong(way, p, k + 1, m \cup {n}, next2, base)
  BY <1>3, <1>4, <1>5, <1>6 DEF CalledAlong
<1> QED BY <1>7 DEF Called, p

\* The return of a call that has visited everything.
LEMMA ReturnCovers ==
  ASSUME NEW X, NEW c \in Seq(SUBSET X), c # <<>>, Head(c) = {}, NEW m, NEW next, NEW rest
  PROVE  /\ Covered(m, next, c, rest) => Covered(m, next, Tail(c), rest)
         /\ CyclesAhead(m, next, c, rest) => CyclesAhead(m, next, Tail(c), rest)
         /\ \A d : Reached(d, m, c) => Reached(d, m, Tail(c))
<1>1. /\ Len(Tail(c)) = Len(c) - 1 /\ Len(c) \in Nat \ {0} /\ c[1] = {}
      /\ \A i \in 1 .. Len(c) - 1 : Tail(c)[i] = c[i + 1]
  BY PopFields
<1>2. \A i \in 1 .. Len(c) : c[i] # {} => \E j \in 1 .. Len(Tail(c)) : Tail(c)[j] = c[i]
  <2> SUFFICES ASSUME NEW i \in 1 .. Len(c), c[i] # {}
               PROVE  \E j \in 1 .. Len(Tail(c)) : Tail(c)[j] = c[i]
    OBVIOUS
  <2>1. PICK j \in 1 .. Len(c) - 1 : i = j + 1 BY <1>1
  <2> QED BY <1>1, <2>1
<1>3. ASSUME Covered(m, next, c, rest) PROVE Covered(m, next, Tail(c), rest)
  BY <1>2, <1>3 DEF Covered
<1>4. ASSUME CyclesAhead(m, next, c, rest) PROVE CyclesAhead(m, next, Tail(c), rest)
  BY <1>2, <1>4 DEF CyclesAhead
<1>5. ASSUME NEW d, Reached(d, m, c) PROVE Reached(d, m, Tail(c))
  BY <1>2, <1>5 DEF Reached
<1> QED BY <1>3, <1>4, <1>5

LEMMA ReturnCalled ==
  ASSUME NEW X, NEW c \in Seq(SUBSET X), c # <<>>, NEW k \in Int, k \in {Len(c), Len(c) - 1},
         NEW m, NEW next, NEW base, Called(c, k, m, next, base)
  PROVE  Called(Tail(c), k - 1, m, next, base)
<1>1. /\ Len(Tail(c)) = Len(c) - 1 /\ Len(c) \in Nat \ {0}
      /\ \A i \in 1 .. Len(c) - 1 : Tail(c)[i] = c[i + 1]
  BY PopFields
<1>a. PICK len \in Nat \ {0} : len = Len(c) BY <1>1
<1>b. k \in Nat /\ k \in {len, len - 1} BY <1>a
<1>2. PICK path : CalledAlong(path, c, k, m, next, base) BY DEF Called
<1> DEFINE way == [i \in 1 .. k - 1 |-> path[i + 1]]
<1>3. way \in [1 .. k - 1 -> m] /\ \A i \in 1 .. k - 1 : way[i] = path[i + 1]
  BY <1>b, <1>2 DEF CalledAlong
<1> HIDE DEF way
<1>4. ASSUME NEW i \in 1 .. k - 1
      PROVE  /\ Tail(c)[i] \subseteq next[way[i]]
             /\ i < k - 1 => way[i] \in next[way[i + 1]]
  <2>1. i + 1 \in 1 .. k /\ i \in 1 .. Len(c) - 1 BY <1>a, <1>b
  <2>2. c[i + 1] \subseteq next[path[i + 1]] BY <1>2, <2>1 DEF CalledAlong
  <2>3. ASSUME i < k - 1 PROVE way[i] \in next[way[i + 1]]
    <3>1. i + 1 < k /\ i + 1 \in 1 .. k - 1 BY <2>3, <1>b
    <3>2. path[i + 1] \in next[path[(i + 1) + 1]] BY <1>2, <2>1, <3>1 DEF CalledAlong
    <3> QED BY <1>3, <3>1, <3>2
  <2> QED BY <1>1, <1>3, <2>1, <2>2, <2>3
<1>5. ASSUME NEW i \in 1 .. Len(Tail(c)), i > k - 1 PROVE Tail(c)[i] \subseteq base
  <2>0. 1 .. Len(Tail(c)) = 1 .. len - 1 BY <1>1, <1>a
  <2>a. i \in 1 .. len - 1 BY <2>0
  <2>b. i \in Int /\ i + 1 > k BY <1>5, <1>b, <2>a
  <2>1. i + 1 \in 1 .. Len(c) /\ i + 1 > k /\ i \in 1 .. Len(c) - 1 BY <1>a, <2>a, <2>b
  <2> QED BY <1>1, <1>2, <2>1 DEF CalledAlong
<1>6. CalledAlong(way, Tail(c), k - 1, m, next, base) BY <1>3, <1>4, <1>5 DEF CalledAlong
<1> QED BY <1>6 DEF Called

\* More calls than names: there is a cycle.
LEMMA DeepIsCyclic ==
  ASSUME NEW c, NEW k \in Nat, NEW m, NEW next, NEW base, Called(c, k, m, next, base),
         IsFiniteSet(m), Cardinality(m) < k, DOMAIN next = m
  PROVE  Cyclic(next)
<1>1. PICK path : CalledAlong(path, c, k, m, next, base) BY DEF Called
<1>2. IsFiniteSet(1 .. k) /\ Cardinality(1 .. k) = k BY FS_Interval
<1>3. path \in [1 .. k -> m] /\ \A i \in 1 .. k : i < k => path[i] \in next[path[i + 1]]
  BY <1>1 DEF CalledAlong
<1>4. \E x, y \in 1 .. k : x # y /\ path[x] = path[y] BY <1>2, <1>3, FS_PigeonHole
<1>5. PICK a, b \in 1 .. k : a < b /\ path[a] = path[b] BY <1>4
<1> DEFINE s == {path[i] : i \in a + 1 .. b}
<1>6. s \in SUBSET m BY <1>3
<1>7. b \in a + 1 .. b BY <1>5
<1>8. s # {} BY <1>7
<1>9. ASSUME NEW n \in s PROVE next[n] \cap s # {}
  <2>1. PICK i \in a + 1 .. b : n = path[i] BY <1>9
  <2>2. i - 1 \in 1 .. k /\ i - 1 < k /\ (i - 1) + 1 = i BY <1>5, <2>1
  <2>3. path[i - 1] \in next[n] BY <1>3, <2>1, <2>2
  <2>4. path[i - 1] \in s
    <3>1. CASE i - 1 = a BY <1>5, <1>7, <3>1
    <3>2. CASE i - 1 # a
      <4>1. i - 1 \in a + 1 .. b BY <2>1, <3>2
      <4> QED BY <4>1
    <3> QED BY <3>1, <3>2
  <2> QED BY <2>3, <2>4
<1> QED BY <1>6, <1>8, <1>9 DEF Cyclic

-----------------------------------------------------------------------------
(* The command line.                                                       *)

LEMMA NamesFinite ==
  /\ IsFiniteSet(Extension) /\ IsFiniteSet(Library) /\ MaxOptions \in Nat
  /\ enabled_extensions \subseteq Extension /\ enabled_extensions_mobile \subseteq Extension
  /\ Cardinality(Extension) \in Nat /\ Cardinality(Library) \in Nat /\ Cardinality({}) = 0
BY PreprocessorAssumption, FS_CardinalityType, FS_EmptySet

LEMMA OnceEachType ==
  ASSUME NEW s \in SUBSET Extension
  PROVE  /\ OnceEach(s) \in [Extension -> 0 .. 1]
         /\ \A e \in Extension : OnceEach(s)[e] > 0 <=> e \in s
BY DEF OnceEach

\* Until the files are read the other parts have nothing to say.
LEMMA BeforeReading ==
  ASSUME IInv, stage \in {"target", "options"}, stage' \in {"target", "options"},
         UNCHANGED loaderVars
  PROVE  CountsOK' /\ BeforeOK' /\ EnabledOK' /\ ExtensionsOK' /\ LoadedOK' /\ LibrariesOK' /\ VisitedOK' /\ DoneOK'
<1> USE DEF loaderVars
<1>1. CountsOK' BY DEF IInv, CountsOK
<1>2. BeforeOK' BY DEF IInv, BeforeOK
<1>3. EnabledOK' /\ ExtensionsOK' /\ LoadedOK' /\ LibrariesOK' /\ VisitedOK' /\ DoneOK'
  BY DEF EnabledOK, ExtensionsOK, LoadedOK, LibrariesOK, VisitedOK, DoneOK
<1> QED BY <1>1, <1>2, <1>3

\* With no options given every extension is on the list once at most.
LEMMA NoOptions ==
  ASSUME options = <<>>
  PROVE  OptionsOK <=> \A e \in Extension : extEnabled[e] <= 1
<1>1. Len(<<>>) = 0 /\ \A e \in Extension : Given(e) = {} BY DEF Given
<1> QED BY <1>1 DEF OptionsOK

LEMMA NoOptionsNext ==
  ASSUME options' = <<>>
  PROVE  OptionsOK' <=> \A e \in Extension : extEnabled'[e] <= 1
<1>1. Len(<<>>) = 0 /\ \A e \in Extension : Given(e)' = {} BY DEF Given
<1> QED BY <1>1 DEF OptionsOK

LEMMA MobileTargetStep == ASSUME IInv, MobileTarget PROVE IInv'
<1>1. /\ stage = "target" /\ stage' = stage /\ options' = options /\ place' = place
      /\ extEnabled' = OnceEach(enabled_extensions_mobile) /\ UNCHANGED loaderVars
  BY DEF MobileTarget
<1>2. /\ extEnabled' \in [Extension -> 0 .. 1] /\ options' = <<>>
  BY <1>1, OnceEachType, NamesFinite DEF IInv, OptionsOK
<1>3. PreprocessorTypeOK'
  <2>1. extEnabled' \in [Extension -> 0 .. MaxOptions + 1] BY <1>2, NamesFinite
  <2> QED BY <1>1, <2>1 DEF IInv, PreprocessorTypeOK, loaderVars
<1>4. OptionsOK' BY <1>2, NoOptionsNext
<1> QED BY <1>1, <1>3, <1>4, BeforeReading DEF IInv

LEMMA TargetKnownStep == ASSUME IInv, TargetKnown PROVE IInv'
<1>1. /\ stage = "target" /\ stage' = "options" /\ UNCHANGED <<place, argumentVars, loaderVars>>
  BY DEF TargetKnown
<1>2. options = <<>> BY <1>1 DEF IInv, OptionsOK
<1>3. PreprocessorTypeOK' BY <1>1 DEF IInv, PreprocessorTypeOK, loaderVars, argumentVars
<1>4. OptionsOK' BY <1>1, <1>2, NoOptions, NoOptionsNext DEF argumentVars, IInv
<1> QED BY <1>1, <1>3, <1>4, BeforeReading DEF IInv

\* One more option.
LEMMA OptionStep ==
  ASSUME IInv, NEW x \in Extension, NEW sign \in {"+", "-"},
         stage = "options", Len(options) < MaxOptions,
         extEnabled' = [extEnabled EXCEPT ![x] = IF sign = "+" THEN @ + 1
                                                 ELSE IF @ = 0 THEN 0 ELSE @ - 1],
         options' = Append(options, <<sign, x>>), UNCHANGED <<stage, place, loaderVars>>
  PROVE  IInv'
<1>1. /\ options \in Seq({"+", "-"} \X Extension) /\ extEnabled \in [Extension -> 0 .. MaxOptions + 1]
  BY DEF IInv, PreprocessorTypeOK
<1>2. PICK n \in Nat : n = Len(options) BY <1>1
<1>3. /\ options' \in Seq({"+", "-"} \X Extension) /\ Len(options') = n + 1
      /\ options'[n + 1] = <<sign, x>> /\ \A i \in 1 .. n : options'[i] = options[i]
  BY <1>1, <1>2
<1>4. ASSUME NEW e \in Extension
      PROVE  Given(e)' = Given(e) \cup (IF e = x THEN {n + 1} ELSE {})
  <2>1. 1 .. n + 1 = (1 .. n) \cup {n + 1} OBVIOUS
  <2>2. <<sign, x>>[2] = x OBVIOUS
  <2> QED BY <1>2, <1>3, <2>1, <2>2 DEF Given
<1>5. \A e \in Extension : Given(e) \subseteq 1 .. n BY <1>2 DEF Given
<1>6. ASSUME NEW e \in Extension
      PROVE  /\ extEnabled[e] \in Nat /\ extEnabled[e] <= n + 1
             /\ (\A i \in Given(e) : options[i][1] = "-") =>
                    extEnabled[e] <= IF Given(e) = {} THEN 1 ELSE 0
             /\ \A i \in Given(e) :
                    options[i][1] = "+" /\ (\A j \in Given(e) : j <= i) => extEnabled[e] > 0
  BY <1>1, <1>2 DEF IInv, OptionsOK
<1>7. ASSUME NEW e \in Extension
      PROVE  /\ extEnabled'[e] \in Nat /\ extEnabled'[e] <= n + 2
             /\ e # x => extEnabled'[e] = extEnabled[e]
             /\ sign = "+" => extEnabled'[x] > 0
             /\ sign = "-" /\ extEnabled[x] <= 1 => extEnabled'[x] = 0
  BY <1>1, <1>6
<1>8. OptionsOK'
  <2>1. ASSUME NEW e \in Extension, \A i \in Given(e)' : options'[i][1] = "-"
        PROVE  extEnabled'[e] <= IF Given(e)' = {} THEN 1 ELSE 0
    <3>1. \A i \in Given(e) : options[i][1] = "-" BY <1>3, <1>4, <1>5, <2>1
    <3>2. CASE e # x
      <4>1. Given(e)' = Given(e) BY <1>4, <3>2
      <4> QED BY <1>6, <1>7, <3>1, <3>2, <4>1
    <3>3. CASE e = x
      <4>1. sign = "-" /\ Given(e)' # {} BY <1>3, <1>4, <2>1, <3>3
      <4>2. extEnabled[e] <= 1 BY <1>6, <3>1
      <4>3. extEnabled'[e] = 0 BY <1>7, <3>3, <4>1, <4>2
      <4> QED BY <4>1, <4>3
    <3> QED BY <3>2, <3>3
  <2>2. ASSUME NEW e \in Extension, NEW i \in Given(e)', options'[i][1] = "+",
               \A j \in Given(e)' : j <= i
        PROVE  extEnabled'[e] > 0
    <3>1. CASE e # x
      <4>1. Given(e)' = Given(e) /\ i \in 1 .. n BY <1>4, <1>5, <3>1
      <4>2. options[i][1] = "+" BY <1>3, <2>2, <4>1
      <4> QED BY <1>6, <1>7, <2>2, <3>1, <4>1, <4>2
    <3>2. CASE e = x
      <4>1. i = n + 1
        <5>1. n + 1 \in Given(e)' /\ (i = n + 1 \/ i \in 1 .. n) BY <1>4, <1>5, <3>2
        <5>2. n + 1 <= i BY <2>2, <5>1
        <5> QED BY <5>1, <5>2
      <4>2. sign = "+" BY <1>3, <2>2, <4>1
      <4> QED BY <1>7, <3>2, <4>2
    <3> QED BY <3>1, <3>2
  <2>3. \A e \in Extension : extEnabled'[e] <= Len(options') + 1 BY <1>3, <1>7
  <2> QED BY <2>1, <2>2, <2>3 DEF OptionsOK
<1>9. PreprocessorTypeOK'
  <2>1. n < MaxOptions /\ MaxOptions \in Nat BY <1>2, NamesFinite
  <2>2. \A e \in Extension : extEnabled'[e] \in 0 .. MaxOptions + 1 BY <1>7, <2>1
  <2>3. extEnabled' \in [Extension -> 0 .. MaxOptions + 1] BY <1>1, <2>2
  <2>4. Len(options') <= MaxOptions BY <1>3, <2>1
  <2> QED BY <1>3, <2>3, <2>4 DEF IInv, PreprocessorTypeOK, loaderVars
<1> QED BY <1>8, <1>9, BeforeReading DEF IInv

LEMMA OptionSteps == ASSUME IInv, NEW x \in Extension, SwitchOn(x) \/ SwitchOff(x) PROVE IInv'
<1>0. extEnabled \in [Extension -> 0 .. MaxOptions + 1] BY DEF IInv, PreprocessorTypeOK
<1>1. CASE SwitchOn(x)
  <2>1. /\ stage = "options" /\ Len(options) < MaxOptions
        /\ extEnabled' = [extEnabled EXCEPT ![x] = @ + 1]
        /\ options' = Append(options, <<"+", x>>) /\ UNCHANGED <<stage, place, loaderVars>>
    BY <1>1 DEF SwitchOn
  <2>2. extEnabled' = [extEnabled EXCEPT ![x] = IF "+" = "+" THEN @ + 1 ELSE IF @ = 0 THEN 0 ELSE @ - 1]
    BY <2>1
  <2> QED BY <2>1, <2>2, OptionStep
<1>2. CASE SwitchOff(x)
  <2>1. /\ stage = "options" /\ Len(options) < MaxOptions
        /\ extEnabled' = [extEnabled EXCEPT ![x] = IF @ = 0 THEN 0 ELSE @ - 1]
        /\ options' = Append(options, <<"-", x>>) /\ UNCHANGED <<stage, place, loaderVars>>
    BY <1>2 DEF SwitchOff
  <2>2. extEnabled' = [extEnabled EXCEPT ![x] = IF "-" = "+" THEN @ + 1 ELSE IF @ = 0 THEN 0 ELSE @ - 1]
    BY <2>1
  <2> QED BY <2>1, <2>2, OptionStep
<1> QED BY <1>1, <1>2

LEMMA OptionsDoneStep == ASSUME IInv, OptionsDone PROVE IInv'
<1>1. /\ stage = "options" /\ stage' = "enabled" /\ place' \in [Extension -> Place]
      /\ extEnabled' = OnceEach(Enabled) /\ todo' = Enabled /\ options' = <<>>
      /\ UNCHANGED <<extensionMap, libraryMap, listed, calls>>
  BY DEF OptionsDone
<1>2. Enabled \in SUBSET Extension BY DEF Enabled
<1>3. extEnabled' \in [Extension -> 0 .. 1] /\ \A e \in Extension : extEnabled'[e] > 0 <=> e \in Enabled
  BY <1>1, <1>2, OnceEachType
<1>4. Enabled' = Enabled BY <1>2, <1>3 DEF Enabled
<1>5. PreprocessorTypeOK'
  <2>1. extEnabled' \in [Extension -> 0 .. MaxOptions + 1] BY <1>3, NamesFinite
  <2>2. options' \in Seq({"+", "-"} \X Extension) /\ Len(options') <= MaxOptions
    BY <1>1, NamesFinite
  <2> QED BY <1>1, <1>2, <2>1, <2>2 DEF IInv, PreprocessorTypeOK
<1>6. OptionsOK' BY <1>1, <1>3, NoOptionsNext
<1>7. CountsOK' BY <1>1 DEF IInv, CountsOK
<1>8. BeforeOK' BY <1>1 DEF IInv, BeforeOK
<1>9. DOMAIN extensionMap' = {} BY <1>1 DEF IInv, BeforeOK
<1>10. EnabledOK' BY <1>1, <1>4, <1>9 DEF EnabledOK, Wanted
<1>11. ExtensionsOK' /\ LoadedOK' /\ LibrariesOK' /\ VisitedOK' /\ DoneOK'
  BY <1>1 DEF ExtensionsOK, LoadedOK, LibrariesOK, VisitedOK, DoneOK
<1> QED BY <1>5, <1>6, <1>7, <1>8, <1>10, <1>11 DEF IInv


-----------------------------------------------------------------------------
(* Builder files.                                                          *)

\* After the options they and what is wanted stay as they are.
LEMMA OptionsStay ==
  ASSUME IInv, stage # "options", stage' # "options", UNCHANGED <<place, argumentVars>>
  PROVE  OptionsOK' /\ Wanted' = Wanted
<1>1. options = <<>> /\ options' = <<>> /\ extEnabled' = extEnabled
  BY DEF IInv, OptionsOK, argumentVars
<1>2. OptionsOK' BY <1>1, NoOptions, NoOptionsNext DEF IInv
<1> QED BY <1>1, <1>2 DEF Wanted, Enabled

\* The file of e is read for the first time.
LEMMA ExtensionIsRead ==
  ASSUME IInv, NEW e \in Extension, e \notin DOMAIN extensionMap, ReadExtension(e),
         UNCHANGED <<place, argumentVars, libraryMap>>
  PROVE  /\ DOMAIN extensionMap' = (DOMAIN extensionMap) \cup {e}
         /\ DOMAIN extensionMap' \subseteq Extension
         /\ \A k \in DOMAIN extensionMap : extensionMap'[k] = extensionMap[k]
         /\ \A k \in DOMAIN extensionMap' :
              extensionMap'[k] \in [dependentExtensions : SUBSET Extension, deps : SUBSET Library]
         /\ listed' \in [extensions : Nat, libraries : Nat]
         /\ CountsOK'
<1>1. PICK x \in SUBSET Extension, d \in SUBSET Library :
        /\ extensionMap' = With(extensionMap, e, [dependentExtensions |-> x, deps |-> d])
        /\ listed' = [listed EXCEPT !.extensions = @ + 1]
  BY DEF ReadExtension
<1>2. /\ DOMAIN extensionMap \subseteq Extension /\ listed \in [extensions : Nat, libraries : Nat]
      /\ \A k \in DOMAIN extensionMap :
           extensionMap[k] \in [dependentExtensions : SUBSET Extension, deps : SUBSET Library]
  BY DEF IInv, PreprocessorTypeOK
<1>3. /\ DOMAIN extensionMap' = (DOMAIN extensionMap) \cup {e}
      /\ extensionMap'[e] = [dependentExtensions |-> x, deps |-> d]
      /\ \A k \in DOMAIN extensionMap : k # e => extensionMap'[k] = extensionMap[k]
  BY <1>1 DEF With
<1>4. listed' \in [extensions : Nat, libraries : Nat] BY <1>1, <1>2
<1>5. CountsOK'
  <2>1. IsFiniteSet(DOMAIN extensionMap) BY <1>2, NamesFinite, FS_Subset
  <2>2. Cardinality(DOMAIN extensionMap') = Cardinality(DOMAIN extensionMap) + 1
    BY <1>3, <2>1, FS_AddElement
  <2>3. listed = [extensions |-> Cardinality(DOMAIN extensionMap),
                  libraries |-> Cardinality(DOMAIN libraryMap)]
    BY DEF IInv, CountsOK
  <2> QED BY <1>1, <2>2, <2>3 DEF CountsOK
<1> QED BY <1>2, <1>3, <1>4, <1>5

LEMMA LibraryIsRead ==
  ASSUME IInv, NEW l \in Library, l \notin DOMAIN libraryMap, ReadLibrary(l),
         UNCHANGED <<place, argumentVars, extensionMap>>
  PROVE  /\ DOMAIN libraryMap' = (DOMAIN libraryMap) \cup {l}
         /\ DOMAIN libraryMap' \subseteq Library
         /\ \A k \in DOMAIN libraryMap : libraryMap'[k] = libraryMap[k]
         /\ \A k \in DOMAIN libraryMap' : libraryMap'[k] \in SUBSET Library
         /\ listed' \in [extensions : Nat, libraries : Nat]
         /\ CountsOK'
<1>1. PICK d \in SUBSET Library :
        /\ libraryMap' = With(libraryMap, l, d)
        /\ listed' = [listed EXCEPT !.libraries = @ + 1]
  BY DEF ReadLibrary
<1>2. /\ DOMAIN libraryMap \subseteq Library /\ listed \in [extensions : Nat, libraries : Nat]
      /\ \A k \in DOMAIN libraryMap : libraryMap[k] \in SUBSET Library
  BY DEF IInv, PreprocessorTypeOK
<1>3. /\ DOMAIN libraryMap' = (DOMAIN libraryMap) \cup {l} /\ libraryMap'[l] = d
      /\ \A k \in DOMAIN libraryMap : k # l => libraryMap'[k] = libraryMap[k]
  BY <1>1 DEF With
<1>4. listed' \in [extensions : Nat, libraries : Nat] BY <1>1, <1>2
<1>5. CountsOK'
  <2>1. IsFiniteSet(DOMAIN libraryMap) BY <1>2, NamesFinite, FS_Subset
  <2>2. Cardinality(DOMAIN libraryMap') = Cardinality(DOMAIN libraryMap) + 1
    BY <1>3, <2>1, FS_AddElement
  <2>3. listed = [extensions |-> Cardinality(DOMAIN extensionMap),
                  libraries |-> Cardinality(DOMAIN libraryMap)]
    BY DEF IInv, CountsOK
  <2> QED BY <1>1, <2>2, <2>3 DEF CountsOK
<1> QED BY <1>2, <1>3, <1>4, <1>5

-----------------------------------------------------------------------------
(* The first foreach: the extensions of the list.                          *)

LEMMA EnabledUnsupportedStep ==
  ASSUME IInv, NEW e \in Extension, EnabledUnsupported(e) PROVE IInv'
<1>1. /\ stage = "enabled" /\ stage' = stage /\ e \in todo /\ place[e] = "nowhere"
      /\ todo' = todo \ {e}
      /\ UNCHANGED <<place, argumentVars, extensionMap, libraryMap, listed, calls>>
  BY DEF EnabledUnsupported
<1>2. PreprocessorTypeOK' BY <1>1 DEF IInv, PreprocessorTypeOK, argumentVars
<1>3. OptionsOK' /\ Wanted' = Wanted BY <1>1, OptionsStay
<1>4. CountsOK' BY <1>1 DEF IInv, CountsOK
<1>5. BeforeOK' BY <1>1 DEF IInv, BeforeOK
<1>6. EnabledOK'
  <2>1. e \notin Wanted BY <1>1 DEF Wanted
  <2>2. Enabled' = Enabled BY <1>1 DEF Enabled, argumentVars
  <2> QED BY <1>1, <1>3, <2>1, <2>2 DEF IInv, EnabledOK
<1>7. ExtensionsOK' /\ LoadedOK' /\ LibrariesOK' /\ VisitedOK' /\ DoneOK'
  BY <1>1 DEF ExtensionsOK, LoadedOK, LibrariesOK, VisitedOK, DoneOK
<1> QED BY <1>2, <1>3, <1>4, <1>5, <1>6, <1>7 DEF IInv

LEMMA EnabledReadStep == ASSUME IInv, NEW e \in Extension, EnabledRead(e) PROVE IInv'
<1>1. /\ stage = "enabled" /\ stage' = stage /\ e \in todo /\ place[e] # "nowhere"
      /\ ReadExtension(e) /\ todo' = todo \ {e}
      /\ UNCHANGED <<place, argumentVars, libraryMap, calls>>
  BY DEF EnabledRead
<1>a. e \notin DOMAIN extensionMap BY <1>1 DEF IInv, EnabledOK
<1>b. /\ DOMAIN extensionMap' = (DOMAIN extensionMap) \cup {e}
      /\ DOMAIN extensionMap' \subseteq Extension
      /\ \A k \in DOMAIN extensionMap' :
           extensionMap'[k] \in [dependentExtensions : SUBSET Extension, deps : SUBSET Library]
      /\ listed' \in [extensions : Nat, libraries : Nat] /\ CountsOK'
  BY <1>1, <1>a, ExtensionIsRead
<1>2. PreprocessorTypeOK' BY <1>1, <1>b DEF IInv, PreprocessorTypeOK, argumentVars
<1>3. OptionsOK' /\ Wanted' = Wanted BY <1>1, OptionsStay
<1>5. BeforeOK' BY <1>1 DEF IInv, BeforeOK
<1>6. EnabledOK'
  <2>1. e \in Wanted BY <1>1 DEF IInv, EnabledOK, Wanted
  <2>2. Enabled' = Enabled BY <1>1 DEF Enabled, argumentVars
  <2> QED BY <1>1, <1>3, <1>b, <2>1, <2>2 DEF IInv, EnabledOK
<1>7. ExtensionsOK' /\ LoadedOK' /\ LibrariesOK' /\ VisitedOK' /\ DoneOK'
  BY <1>1 DEF ExtensionsOK, LoadedOK, LibrariesOK, VisitedOK, DoneOK
<1> QED BY <1>2, <1>3, <1>5, <1>6, <1>7, <1>b DEF IInv

\* No foreach has begun.
LEMMA NothingCalled ==
  ASSUME NEW k \in Int, k <= 0, NEW m, NEW next, NEW base PROVE Called(<<>>, k, m, next, base)
<1> DEFINE path == [i \in 1 .. k |-> 0]
<1>1. 1 .. k = {} /\ 1 .. Len(<<>>) = {} OBVIOUS
<1>2. path \in [1 .. k -> m] BY <1>1
<1> HIDE DEF path
<1>3. CalledAlong(path, <<>>, k, m, next, base) BY <1>1, <1>2 DEF CalledAlong
<1> QED BY <1>3 DEF Called

LEMMA EnabledDoneStep == ASSUME IInv, EnabledDone PROVE IInv'
<1>1. /\ stage = "enabled" /\ stage' = "extensions" /\ todo = {} /\ todo' = DOMAIN extensionMap
      /\ UNCHANGED <<place, argumentVars, extensionMap, libraryMap, listed, calls>>
  BY DEF EnabledDone
<1>2. PreprocessorTypeOK' BY <1>1 DEF IInv, PreprocessorTypeOK, argumentVars
<1>3. OptionsOK' /\ Wanted' = Wanted BY <1>1, OptionsStay
<1>4. CountsOK' BY <1>1 DEF IInv, CountsOK
<1>5. BeforeOK' BY <1>1 DEF IInv, BeforeOK
<1>6. DOMAIN extensionMap = Wanted /\ calls = <<>> BY <1>1 DEF IInv, EnabledOK, BeforeOK
<1>7. dependentExtensions' = dependentExtensions BY <1>1 DEF dependentExtensions
<1>8. ExtensionsOK'
  <2>1. Grown(DOMAIN extensionMap, Wanted, dependentExtensions) BY <1>6 DEF Grown
  <2>2. Covered(DOMAIN extensionMap, dependentExtensions, calls, DOMAIN extensionMap) BY DEF Covered
  <2>3. CyclesAhead(DOMAIN extensionMap, dependentExtensions, calls, DOMAIN extensionMap)
    BY DEF CyclesAhead, Endless
  <2>4. Called(calls, Len(calls), DOMAIN extensionMap, dependentExtensions, {})
    BY <1>6, NothingCalled
  <2> QED BY <1>1, <1>3, <1>6, <1>7, <2>1, <2>2, <2>3, <2>4 DEF ExtensionsOK
<1>9. EnabledOK' /\ LoadedOK' /\ LibrariesOK' /\ VisitedOK' /\ DoneOK'
  BY <1>1 DEF EnabledOK, LoadedOK, LibrariesOK, VisitedOK, DoneOK
<1> QED BY <1>2, <1>3, <1>4, <1>5, <1>8, <1>9 DEF IInv

-----------------------------------------------------------------------------
(* The second and the third: what they need.                               *)

LEMMA ExtensionsDoneStep == ASSUME IInv, ExtensionsDone PROVE IInv'
<1>1. /\ stage = "extensions" /\ stage' = "libraries" /\ todo = {} /\ calls = <<>>
      /\ todo' = DOMAIN extensionMap
      /\ UNCHANGED <<place, argumentVars, extensionMap, libraryMap, listed, calls>>
  BY DEF ExtensionsDone
<1>2. PreprocessorTypeOK' BY <1>1 DEF IInv, PreprocessorTypeOK, argumentVars
<1>3. OptionsOK' /\ Wanted' = Wanted BY <1>1, OptionsStay
<1>4. CountsOK' BY <1>1 DEF IInv, CountsOK
<1>5. BeforeOK' /\ DOMAIN libraryMap = {} BY <1>1 DEF IInv, BeforeOK
<1>6. /\ Wanted \subseteq DOMAIN extensionMap
      /\ Grown(DOMAIN extensionMap, Wanted, dependentExtensions)
      /\ Covered(DOMAIN extensionMap, dependentExtensions, <<>>, {})
      /\ CyclesAhead(DOMAIN extensionMap, dependentExtensions, <<>>, {})
  BY <1>1 DEF IInv, ExtensionsOK
<1>7. dependentExtensions' = dependentExtensions /\ DOMAIN dependentExtensions = DOMAIN extensionMap
  BY <1>1 DEF dependentExtensions
<1>8. LoadedOK'
  <2>0. 1 .. Len(<<>>) = {} OBVIOUS
  <2>1. \A n \in DOMAIN extensionMap : dependentExtensions[n] \subseteq DOMAIN extensionMap
    BY <1>6, <2>0 DEF Covered
  <2>2. LeastClosed(DOMAIN extensionMap, Wanted, dependentExtensions)
    BY <1>6, <2>1 DEF LeastClosed, Grown
  <2>3. ~Cyclic(dependentExtensions) BY <1>6, <1>7, <2>0 DEF Cyclic, CyclesAhead, Endless
  <2> QED BY <1>1, <1>3, <1>7, <2>2, <2>3 DEF LoadedOK
<1>9. LibrariesOK'
  <2>1. Grown(DOMAIN libraryMap, LibrariesWanted, libraryMap) BY <1>5 DEF Grown
  <2>2. Called(calls, Len(calls) - 1, DOMAIN libraryMap, libraryMap, LibrariesWanted)
    BY <1>1, NothingCalled
  <2>3. LibrariesWanted' = LibrariesWanted BY <1>1 DEF LibrariesWanted
  <2> QED BY <1>1, <2>1, <2>2, <2>3 DEF LibrariesOK
<1>x. VisitedOK'
  <2>1. Covered({}, libraryMap, <<>>, {}) BY DEF Covered
  <2>2. CyclesAhead({}, libraryMap, <<>>, {}) BY DEF CyclesAhead, Endless
  <2> QED BY <1>1, <1>5, <2>1, <2>2 DEF VisitedOK
<1>10. EnabledOK' /\ ExtensionsOK' /\ DoneOK' BY <1>1 DEF EnabledOK, ExtensionsOK, DoneOK
<1> QED BY <1>2, <1>3, <1>4, <1>5, <1>8, <1>9, <1>10, <1>x DEF IInv

\* The foreach of one extension is the only one.
LEMMA OneCalled ==
  ASSUME NEW e, NEW m, e \in m, NEW next, NEW base
  PROVE  Called(<<next[e]>>, 1, m, next, base)
<1> DEFINE path == [i \in 1 .. 1 |-> e]
<1>1. 1 .. 1 = {1} /\ 1 .. Len(<<next[e]>>) = {1} /\ <<next[e]>>[1] = next[e] OBVIOUS
<1>2. path \in [1 .. 1 -> m] /\ path[1] = e BY <1>1
<1> HIDE DEF path
<1>3. CalledAlong(path, <<next[e]>>, 1, m, next, base) BY <1>1, <1>2 DEF CalledAlong
<1> QED BY <1>3 DEF Called

LEMMA NoneCalled ==
  ASSUME NEW d, NEW m, NEW next, NEW base, d \subseteq base
  PROVE  Called(<<d>>, 0, m, next, base)
<1> DEFINE path == [i \in 1 .. 0 |-> 0]
<1>1. 1 .. 0 = {} /\ 1 .. Len(<<d>>) = {1} /\ <<d>>[1] = d OBVIOUS
<1>2. path \in [1 .. 0 -> m] BY <1>1
<1> HIDE DEF path
<1>3. CalledAlong(path, <<d>>, 0, m, next, base) BY <1>1, <1>2 DEF CalledAlong
<1> QED BY <1>3 DEF Called

LEMMA NextExtensionStep == ASSUME IInv, NEW e \in Extension, NextExtension(e) PROVE IInv'
<1>1. /\ stage \in {"extensions", "libraries"} /\ stage' = stage /\ calls = <<>> /\ e \in todo
      /\ todo' = todo \ {e}
      /\ calls' = <<IF stage = "extensions" THEN extensionMap[e].dependentExtensions
                                            ELSE extensionMap[e].deps>>
      /\ UNCHANGED <<place, argumentVars, extensionMap, libraryMap, listed>>
  BY DEF NextExtension
<1>2. e \in DOMAIN extensionMap BY <1>1 DEF IInv, ExtensionsOK, LibrariesOK
<1>3. extensionMap[e] \in [dependentExtensions : SUBSET Extension, deps : SUBSET Library]
  BY <1>2 DEF IInv, PreprocessorTypeOK
<1>4. PreprocessorTypeOK'
  <2>1. calls' \in Seq(SUBSET (Extension \cup Library)) BY <1>1, <1>3
  <2> QED BY <1>1, <2>1 DEF IInv, PreprocessorTypeOK, argumentVars
<1>5. OptionsOK' /\ Wanted' = Wanted BY <1>1, OptionsStay
<1>6. CountsOK' BY <1>1 DEF IInv, CountsOK
<1>7. BeforeOK' BY <1>1 DEF IInv, BeforeOK
<1>8. dependentExtensions' = dependentExtensions /\ LibrariesWanted' = LibrariesWanted
  BY <1>1 DEF dependentExtensions, LibrariesWanted
<1>9. ExtensionsOK'
  <2> SUFFICES ASSUME stage = "extensions" PROVE ExtensionsOK'
    BY <1>1 DEF ExtensionsOK
  <2> DEFINE m == DOMAIN extensionMap  next == dependentExtensions
  <2>1. /\ Wanted \subseteq m /\ todo \subseteq m /\ Grown(m, Wanted, next)
        /\ Covered(m, next, <<>>, todo) /\ CyclesAhead(m, next, <<>>, todo)
    BY <1>1 DEF IInv, ExtensionsOK
  <2>2. calls' = <<next[e]>> BY <1>1, <1>2 DEF dependentExtensions
  <2>3. 1 .. Len(<<>>) = {} /\ 1 .. Len(<<next[e]>>) = {1} /\ <<next[e]>>[1] = next[e] OBVIOUS
  <2> HIDE DEF m, next
  <2>4. Covered(m, next, <<next[e]>>, todo \ {e}) BY <2>1, <2>3 DEF Covered
  <2>5. CyclesAhead(m, next, <<next[e]>>, todo \ {e})
    <3> SUFFICES ASSUME NEW s \in SUBSET m, Endless(s, next), s \cap (todo \ {e}) = {}
                 PROVE  next[e] \cap s # {}
      BY <2>3 DEF CyclesAhead
    <3>1. s \cap todo # {} BY <2>1, <2>3 DEF CyclesAhead
    <3>2. e \in s BY <3>1
    <3> QED BY <3>2 DEF Endless
  <2>6. Called(<<next[e]>>, 1, m, next, {}) BY <1>2, OneCalled DEF m
  <2>7. Len(<<next[e]>>) = 1 OBVIOUS
  <2>8. DOMAIN extensionMap' = m /\ dependentExtensions' = next BY <1>1, <1>8 DEF m, next
  <2> QED BY <1>1, <1>5, <2>1, <2>2, <2>4, <2>5, <2>6, <2>7, <2>8 DEF ExtensionsOK
<1>10. LoadedOK' BY <1>1, <1>5, <1>8 DEF IInv, LoadedOK
<1>11. LibrariesOK'
  <2> SUFFICES ASSUME stage = "libraries" PROVE LibrariesOK'
    BY <1>1 DEF LibrariesOK
  <2>1. todo \subseteq DOMAIN extensionMap /\ Grown(DOMAIN libraryMap, LibrariesWanted, libraryMap)
    BY DEF IInv, LibrariesOK
  <2>2. calls' = <<extensionMap[e].deps>> /\ extensionMap[e].deps \subseteq LibrariesWanted
    BY <1>1, <1>2 DEF LibrariesWanted
  <2>3. Len(calls') - 1 = 0 BY <2>2
  <2>4. Called(calls', Len(calls') - 1, DOMAIN libraryMap, libraryMap, LibrariesWanted)
    BY <2>2, <2>3, NoneCalled
  <2> QED BY <1>1, <1>8, <2>1, <2>4 DEF LibrariesOK
<1>x. VisitedOK'
  <2> SUFFICES ASSUME stage = "libraries" PROVE VisitedOK'
    BY <1>1 DEF VisitedOK
  <2> DEFINE m == DOMAIN libraryMap
  <2>1. /\ \A k \in (DOMAIN extensionMap) \ todo : \A d \in extensionMap[k].deps : Reached(d, m, <<>>)
        /\ Covered(m, libraryMap, <<>>, {}) /\ CyclesAhead(m, libraryMap, <<>>, {})
    BY <1>1 DEF IInv, VisitedOK
  <2>2. PICK deps : deps = extensionMap[e].deps /\ calls' = <<deps>> BY <1>1
  <2>3. 1 .. Len(<<>>) = {} /\ 1 .. Len(<<deps>>) = {1} /\ <<deps>>[1] = deps OBVIOUS
  <2> HIDE DEF m
  <2>4. Covered(m, libraryMap, <<deps>>, {}) /\ CyclesAhead(m, libraryMap, <<deps>>, {})
    BY <2>1, <2>3 DEF Covered, CyclesAhead
  <2>5. ASSUME NEW k \in (DOMAIN extensionMap) \ (todo \ {e}), NEW d \in extensionMap[k].deps
        PROVE  Reached(d, m, <<deps>>)
    <3>1. CASE k = e BY <2>2, <2>3, <2>5, <3>1 DEF Reached
    <3>2. CASE k # e BY <2>1, <2>3, <2>5, <3>2 DEF Reached
    <3> QED BY <3>1, <3>2
  <2> QED BY <1>1, <2>2, <2>4, <2>5 DEF VisitedOK, m
<1>12. EnabledOK' /\ DoneOK' BY <1>1 DEF EnabledOK, DoneOK
<1> QED BY <1>4, <1>5, <1>6, <1>7, <1>9, <1>10, <1>11, <1>12, <1>x DEF IInv


\* What the innermost foreach still visits is listed by a name of the map or
\* is a part of base.
LEMMA CalledIsListed ==
  ASSUME NEW X, NEW c \in Seq(SUBSET X), c # <<>>, NEW k \in Int, k \in {Len(c), Len(c) - 1},
         NEW m, NEW next, NEW base, Called(c, k, m, next, base), NEW n \in c[1]
  PROVE  (k = Len(c) - 1 /\ n \in base) \/ \E q \in m : n \in next[q]
<1>1. PICK path : CalledAlong(path, c, k, m, next, base) BY DEF Called
<1>2. Len(c) \in Nat \ {0} OBVIOUS
<1>3. CASE k >= 1
  <2>1. 1 \in 1 .. k BY <1>3
  <2>2. c[1] \subseteq next[path[1]] /\ path[1] \in m BY <1>1, <2>1 DEF CalledAlong
  <2> QED BY <2>2
<1>4. CASE ~(k >= 1)
  <2>0. PICK len \in Nat \ {0} : len = Len(c) BY <1>2
  <2>a. k \in Int /\ k \in {len, len - 1} BY <2>0
  <2>1. k = 0 /\ Len(c) = 1 /\ k = Len(c) - 1 BY <1>4, <2>0, <2>a
  <2>2. 1 \in 1 .. Len(c) /\ 1 > k BY <2>1
  <2> QED BY <1>1, <2>1, <2>2 DEF CalledAlong
<1> QED BY <1>3, <1>4

LEMMA LoadDependentExtensionStep ==
  ASSUME IInv, NEW e \in Extension, LoadDependentExtension(e) PROVE IInv'
<1> DEFINE m == DOMAIN extensionMap
<1>c. PICK next : next = dependentExtensions OBVIOUS
<1>0. PICK next2 : next2 = dependentExtensions' OBVIOUS
<1>1. /\ stage = "extensions" /\ stage' = stage /\ calls # <<>> /\ e \in Head(calls)
      /\ \/ e \in m /\ UNCHANGED <<extensionMap, listed>>
         \/ e \notin m /\ ReadExtension(e)
      /\ calls' = <<extensionMap'[e].dependentExtensions>> \o [calls EXCEPT ![1] = @ \ {e}]
      /\ UNCHANGED <<place, argumentVars, libraryMap, todo>>
  BY DEF LoadDependentExtension, Calls, Visit
<1>2. /\ calls \in Seq(SUBSET (Extension \cup Library)) /\ m \subseteq Extension
      /\ listed \in [extensions : Nat, libraries : Nat]
      /\ \A k \in m : extensionMap[k] \in [dependentExtensions : SUBSET Extension, deps : SUBSET Library]
  BY DEF IInv, PreprocessorTypeOK
<1>3. e \in calls[1] BY <1>1, <1>2
<1>4. /\ DOMAIN extensionMap' = m \cup {e} /\ m \cup {e} \subseteq Extension
      /\ \A k \in m : extensionMap'[k] = extensionMap[k]
      /\ \A k \in m \cup {e} :
           extensionMap'[k] \in [dependentExtensions : SUBSET Extension, deps : SUBSET Library]
      /\ listed' \in [extensions : Nat, libraries : Nat] /\ CountsOK'
  <2>1. CASE e \in m /\ UNCHANGED <<extensionMap, listed>>
    <3>1. m \cup {e} = m BY <2>1
    <3>2. CountsOK' BY <1>1, <2>1 DEF IInv, CountsOK
    <3> QED BY <1>2, <2>1, <3>1, <3>2
  <2>2. CASE e \notin m /\ ReadExtension(e)
    <3>1. /\ DOMAIN extensionMap' = (DOMAIN extensionMap) \cup {e}
          /\ DOMAIN extensionMap' \subseteq Extension
          /\ \A k \in DOMAIN extensionMap : extensionMap'[k] = extensionMap[k]
          /\ \A k \in DOMAIN extensionMap' :
               extensionMap'[k] \in [dependentExtensions : SUBSET Extension, deps : SUBSET Library]
          /\ listed' \in [extensions : Nat, libraries : Nat]
          /\ CountsOK'
      BY <1>1, <2>2, ExtensionIsRead
    <3> QED BY <3>1
  <2> QED BY <1>1, <2>1, <2>2
<1>5. /\ \A k \in m : next2[k] = next[k]
      /\ next2[e] = extensionMap'[e].dependentExtensions
      /\ next2[e] \in SUBSET Extension /\ next2[e] \in SUBSET (Extension \cup Library)
  <2>1. \A k \in m \cup {e} : next2[k] = extensionMap'[k].dependentExtensions
    BY <1>0, <1>4 DEF dependentExtensions
  <2>2. \A k \in m : next[k] = extensionMap[k].dependentExtensions BY <1>c DEF dependentExtensions
  <2>3. extensionMap'[e].dependentExtensions \in SUBSET Extension BY <1>4
  <2> QED BY <1>4, <2>1, <2>2, <2>3
<1>6. calls' = <<next2[e]>> \o [calls EXCEPT ![1] = @ \ {e}] BY <1>1, <1>5
<1>7. /\ Wanted \subseteq m /\ todo \subseteq m /\ Grown(m, Wanted, next)
      /\ Covered(m, next, calls, todo) /\ CyclesAhead(m, next, calls, todo)
      /\ Called(calls, Len(calls), m, next, {})
  BY <1>1, <1>c DEF IInv, ExtensionsOK
<1> HIDE DEF m
<1>x. PICK X : X = Extension \cup Library OBVIOUS
<1>y. calls \in Seq(SUBSET X) /\ next2[e] \in SUBSET X BY <1>2, <1>5, <1>x
<1>8. calls' \in Seq(SUBSET (Extension \cup Library)) /\ Len(calls') = Len(calls) + 1
      /\ Len(calls) \in Nat
  BY <1>1, <1>2, <1>5, <1>6, PushFields
<1>9. PreprocessorTypeOK' BY <1>1, <1>4, <1>8 DEF IInv, PreprocessorTypeOK, argumentVars
<1>10. OptionsOK' /\ Wanted' = Wanted BY <1>1, OptionsStay
<1>11. BeforeOK' BY <1>1 DEF IInv, BeforeOK
<1>12. ExtensionsOK'
  <2>0. /\ calls \in Seq(SUBSET X) /\ calls # <<>> /\ e \in calls[1] /\ next2[e] \in SUBSET X
        /\ \A q \in m : next2[q] = next[q]
    BY <1>1, <1>3, <1>5, <1>y
  <2>1. Covered(m \cup {e}, next2, calls', todo)
    <3>1. Covered(m, next, calls, todo) BY <1>7
    <3>2. Covered(m \cup {e}, next2, <<next2[e]>> \o [calls EXCEPT ![1] = @ \ {e}], todo)
      BY ZenonT(60), <2>0, <3>1, VisitCovers
    <3> QED BY <1>6, <3>2
  <2>2. CyclesAhead(m \cup {e}, next2, calls', todo)
    <3>1. CyclesAhead(m, next, calls, todo) BY <1>7
    <3>2. CyclesAhead(m \cup {e}, next2, <<next2[e]>> \o [calls EXCEPT ![1] = @ \ {e}], todo)
      BY ZenonT(60), <2>0, <3>1, VisitAhead
    <3> QED BY <1>6, <3>2
  <2>a. PICK k : k = Len(calls) OBVIOUS
  <2>b. k \in Int /\ k \in {Len(calls), Len(calls) - 1} /\ k # Len(calls) - 1 BY <1>8, <2>a
  <2>c. Called(calls, k, m, next, {}) BY <1>7, <2>a
  <2>3. Called(calls', Len(calls'), m \cup {e}, next2, {})
    <3>1. Called(<<next2[e]>> \o [calls EXCEPT ![1] = @ \ {e}], k + 1, m \cup {e}, next2, {})
      BY <2>0, <2>b, <2>c, VisitCalled
    <3> QED BY <1>6, <1>8, <2>a, <3>1
  <2>4. Grown(m \cup {e}, Wanted, next2)
    <3>1. CASE e \in m
      <4>1. m \cup {e} = m BY <3>1
      <4> QED BY <1>5, <1>7, <4>1 DEF Grown
    <3>2. CASE e \notin m
      <4>0. PICK none : none = {} OBVIOUS
      <4>a. Called(calls, k, m, next, none) BY <2>c, <4>0
      <4>b. e \in none \/ \E q \in m : e \in next[q] BY <2>0, <2>b, <4>a, CalledIsListed
      <4>1. \E q \in m : e \in next[q] BY <4>0, <4>b
      <4> QED BY <1>5, <1>7, <3>2, <4>1, GrownMore
    <3> QED BY <3>1, <3>2
  <2> QED BY <1>0, <1>1, <1>4, <1>7, <1>10, <2>1, <2>2, <2>3, <2>4 DEF ExtensionsOK
<1>13. EnabledOK' /\ LoadedOK' /\ LibrariesOK' /\ VisitedOK' /\ DoneOK'
  BY <1>1 DEF EnabledOK, LoadedOK, LibrariesOK, VisitedOK, DoneOK
<1> QED BY <1>4, <1>9, <1>10, <1>11, <1>12, <1>13 DEF IInv

LEMMA LoadDependentLibraryStep ==
  ASSUME IInv, NEW l \in Library, LoadDependentLibrary(l) PROVE IInv'
<1> DEFINE m == DOMAIN libraryMap
<1>0. PICK next2 : next2 = libraryMap' OBVIOUS
<1>1. /\ stage = "libraries" /\ stage' = stage /\ calls # <<>> /\ l \in Head(calls)
      /\ \/ l \in m /\ UNCHANGED <<libraryMap, listed>>
         \/ l \notin m /\ ReadLibrary(l)
      /\ calls' = <<libraryMap'[l]>> \o [calls EXCEPT ![1] = @ \ {l}]
      /\ UNCHANGED <<place, argumentVars, extensionMap, todo>>
  BY DEF LoadDependentLibrary, Calls, Visit
<1>2. /\ calls \in Seq(SUBSET (Extension \cup Library)) /\ m \subseteq Library
      /\ listed \in [extensions : Nat, libraries : Nat]
      /\ \A k \in m : libraryMap[k] \in SUBSET Library
  BY DEF IInv, PreprocessorTypeOK
<1>3. l \in calls[1] BY <1>1, <1>2
<1>4. /\ DOMAIN libraryMap' = m \cup {l} /\ m \cup {l} \subseteq Library
      /\ \A k \in m : libraryMap'[k] = libraryMap[k]
      /\ \A k \in m \cup {l} : libraryMap'[k] \in SUBSET Library
      /\ listed' \in [extensions : Nat, libraries : Nat] /\ CountsOK'
  <2>1. CASE l \in m /\ UNCHANGED <<libraryMap, listed>>
    <3>1. m \cup {l} = m BY <2>1
    <3>2. CountsOK' BY <1>1, <2>1 DEF IInv, CountsOK
    <3> QED BY <1>2, <2>1, <3>1, <3>2
  <2>2. CASE l \notin m /\ ReadLibrary(l)
    <3>1. /\ DOMAIN libraryMap' = (DOMAIN libraryMap) \cup {l}
          /\ DOMAIN libraryMap' \subseteq Library
          /\ \A k \in DOMAIN libraryMap : libraryMap'[k] = libraryMap[k]
          /\ \A k \in DOMAIN libraryMap' : libraryMap'[k] \in SUBSET Library
          /\ listed' \in [extensions : Nat, libraries : Nat]
          /\ CountsOK'
      BY <1>1, <2>2, LibraryIsRead
    <3> QED BY <3>1
  <2> QED BY <1>1, <2>1, <2>2
<1>5. /\ \A k \in m : next2[k] = libraryMap[k]
      /\ next2[l] \in SUBSET (Extension \cup Library)
  BY <1>0, <1>4
<1>6. calls' = <<next2[l]>> \o [calls EXCEPT ![1] = @ \ {l}] BY <1>0, <1>1
<1>7. /\ todo \subseteq DOMAIN extensionMap /\ Grown(m, LibrariesWanted, libraryMap)
      /\ Called(calls, Len(calls) - 1, m, libraryMap, LibrariesWanted)
      /\ Extension # {}
  BY <1>1 DEF IInv, LibrariesOK
<1>x. PICK X : X = Extension \cup Library OBVIOUS
<1>y. calls \in Seq(SUBSET X) /\ next2[l] \in SUBSET X BY <1>2, <1>5, <1>x
<1>a. LibrariesWanted' = LibrariesWanted /\ dependentExtensions' = dependentExtensions
  BY <1>1 DEF LibrariesWanted, dependentExtensions
<1> HIDE DEF m
<1>8. calls' \in Seq(SUBSET (Extension \cup Library)) /\ Len(calls') = Len(calls) + 1
      /\ Len(calls) \in Nat
  BY <1>1, <1>2, <1>5, <1>6, PushFields
<1>9. PreprocessorTypeOK' BY <1>1, <1>4, <1>8 DEF IInv, PreprocessorTypeOK, argumentVars
<1>10. OptionsOK' /\ Wanted' = Wanted BY <1>1, OptionsStay
<1>11. BeforeOK' BY <1>1 DEF IInv, BeforeOK
<1>12. LibrariesOK'
  <2>0. /\ calls \in Seq(SUBSET X) /\ calls # <<>> /\ l \in calls[1] /\ next2[l] \in SUBSET X
        /\ \A q \in m : next2[q] = libraryMap[q]
    BY <1>1, <1>3, <1>5, <1>y
  <2>a. PICK k : k = Len(calls) - 1 OBVIOUS
  <2>b. k \in Int /\ k \in {Len(calls), Len(calls) - 1} BY <1>8, <2>a
  <2>c. Called(calls, k, m, libraryMap, LibrariesWanted) BY <1>7, <2>a
  <2>1. Called(calls', Len(calls') - 1, m \cup {l}, next2, LibrariesWanted)
    <3>1. Called(<<next2[l]>> \o [calls EXCEPT ![1] = @ \ {l}], k + 1, m \cup {l}, next2,
                 LibrariesWanted)
      BY <2>0, <2>b, <2>c, VisitCalled
    <3>2. Len(calls') - 1 = k + 1 BY <1>8, <2>a
    <3> QED BY <1>6, <3>1, <3>2
  <2>2. Grown(m \cup {l}, LibrariesWanted, next2)
    <3>1. CASE l \in m
      <4>1. m \cup {l} = m BY <3>1
      <4> QED BY <1>5, <1>7, <4>1 DEF Grown
    <3>2. CASE l \notin m
      <4>1. l \in LibrariesWanted \/ \E q \in m : l \in libraryMap[q]
        BY <2>0, <2>b, <2>c, CalledIsListed
      <4> QED BY <1>5, <1>7, <3>2, <4>1, GrownMore
    <3> QED BY <3>1, <3>2
  <2> QED BY <1>0, <1>1, <1>4, <1>7, <1>a, <2>1, <2>2 DEF LibrariesOK
<1>15. VisitedOK'
  <2>0. /\ calls \in Seq(SUBSET X) /\ calls # <<>> /\ l \in calls[1] /\ next2[l] \in SUBSET X
        /\ \A q \in m : next2[q] = libraryMap[q]
    BY <1>1, <1>3, <1>5, <1>y
  <2>a. PICK none : none = {} OBVIOUS
  <2>b. /\ Covered(m, libraryMap, calls, none) /\ CyclesAhead(m, libraryMap, calls, none)
        /\ \A e \in (DOMAIN extensionMap) \ todo : \A d \in extensionMap[e].deps : Reached(d, m, calls)
    BY <1>1, <2>a DEF IInv, VisitedOK, m
  <2>1. Covered(m \cup {l}, next2, calls', none)
    <3>1. Covered(m \cup {l}, next2, <<next2[l]>> \o [calls EXCEPT ![1] = @ \ {l}], none)
      BY ZenonT(60), <2>0, <2>b, VisitCovers
    <3> QED BY <1>6, <3>1
  <2>2. CyclesAhead(m \cup {l}, next2, calls', none)
    <3>1. CyclesAhead(m \cup {l}, next2, <<next2[l]>> \o [calls EXCEPT ![1] = @ \ {l}], none)
      BY ZenonT(60), <2>0, <2>b, VisitAhead
    <3> QED BY <1>6, <3>1
  <2>3. ASSUME NEW e \in (DOMAIN extensionMap) \ todo, NEW d \in extensionMap[e].deps
        PROVE  Reached(d, m \cup {l}, calls')
    <3>1. Reached(d, m, calls) BY <2>b
    <3>2. Reached(d, m \cup {l}, <<next2[l]>> \o [calls EXCEPT ![1] = @ \ {l}])
      BY <2>0, <3>1, VisitReaches
    <3> QED BY <1>6, <3>2
  <2> QED BY <1>0, <1>1, <1>4, <2>a, <2>1, <2>2, <2>3 DEF VisitedOK
<1>13. LoadedOK' BY <1>1, <1>10, <1>a DEF IInv, LoadedOK
<1>14. EnabledOK' /\ ExtensionsOK' /\ DoneOK' BY <1>1 DEF EnabledOK, ExtensionsOK, DoneOK
<1> QED BY <1>4, <1>9, <1>10, <1>11, <1>12, <1>13, <1>14, <1>15 DEF IInv

LEMMA ReturnStep == ASSUME IInv, Return PROVE IInv'
<1>1. /\ stage \in {"extensions", "libraries"} /\ stage' = stage /\ calls # <<>> /\ Head(calls) = {}
      /\ calls' = Tail(calls)
      /\ UNCHANGED <<place, argumentVars, extensionMap, libraryMap, listed, todo>>
  BY DEF Return
<1>2. calls \in Seq(SUBSET (Extension \cup Library)) BY DEF IInv, PreprocessorTypeOK
<1>3. calls' \in Seq(SUBSET (Extension \cup Library)) /\ Len(calls') = Len(calls) - 1
      /\ Len(calls) \in Nat
  BY <1>1, <1>2, PopFields
<1>4. PreprocessorTypeOK' BY <1>1, <1>3 DEF IInv, PreprocessorTypeOK, argumentVars
<1>5. OptionsOK' /\ Wanted' = Wanted BY <1>1, OptionsStay
<1>6. CountsOK' BY <1>1 DEF IInv, CountsOK
<1>7. BeforeOK' BY <1>1 DEF IInv, BeforeOK
<1>8. dependentExtensions' = dependentExtensions /\ LibrariesWanted' = LibrariesWanted
  BY <1>1 DEF dependentExtensions, LibrariesWanted
<1>9. ExtensionsOK'
  <2> SUFFICES ASSUME stage = "extensions" PROVE ExtensionsOK'
    BY <1>1 DEF ExtensionsOK
  <2> DEFINE m == DOMAIN extensionMap
  <2>1. /\ Covered(m, dependentExtensions, calls, todo)
        /\ CyclesAhead(m, dependentExtensions, calls, todo)
        /\ Called(calls, Len(calls), m, dependentExtensions, {})
    BY DEF IInv, ExtensionsOK
  <2>2. /\ Covered(m, dependentExtensions, Tail(calls), todo)
        /\ CyclesAhead(m, dependentExtensions, Tail(calls), todo)
    BY <1>1, <1>2, <2>1, ReturnCovers
  <2>3. PICK k \in Int : k = Len(calls) BY <1>3
  <2>4. Called(Tail(calls), k - 1, m, dependentExtensions, {})
    BY <1>1, <1>2, <2>1, <2>3, ReturnCalled
  <2> QED BY <1>1, <1>3, <1>5, <1>8, <2>2, <2>3, <2>4 DEF IInv, ExtensionsOK
<1>10. LoadedOK' BY <1>1, <1>5, <1>8 DEF IInv, LoadedOK
<1>11. LibrariesOK'
  <2> SUFFICES ASSUME stage = "libraries" PROVE LibrariesOK'
    BY <1>1 DEF LibrariesOK
  <2>1. PICK k \in Int : k = Len(calls) - 1 BY <1>3
  <2>2. Called(Tail(calls), k - 1, DOMAIN libraryMap, libraryMap, LibrariesWanted)
    BY <1>1, <1>2, <2>1, ReturnCalled DEF IInv, LibrariesOK
  <2> QED BY <1>1, <1>3, <1>8, <2>1, <2>2 DEF IInv, LibrariesOK
<1>x. VisitedOK'
  <2> SUFFICES ASSUME stage = "libraries" PROVE VisitedOK'
    BY <1>1 DEF VisitedOK
  <2> DEFINE m == DOMAIN libraryMap
  <2>1. /\ \A e \in (DOMAIN extensionMap) \ todo : \A d \in extensionMap[e].deps : Reached(d, m, calls)
        /\ Covered(m, libraryMap, calls, {}) /\ CyclesAhead(m, libraryMap, calls, {})
    BY DEF IInv, VisitedOK
  <2> HIDE DEF m
  <2>2. /\ \A d : Reached(d, m, calls) => Reached(d, m, Tail(calls))
        /\ Covered(m, libraryMap, Tail(calls), {}) /\ CyclesAhead(m, libraryMap, Tail(calls), {})
    BY <1>1, <1>2, <2>1, ReturnCovers
  <2> QED BY <1>1, <2>1, <2>2 DEF VisitedOK, m
<1>12. EnabledOK' /\ DoneOK' BY <1>1 DEF EnabledOK, DoneOK
<1> QED BY <1>4, <1>5, <1>6, <1>7, <1>9, <1>10, <1>11, <1>12, <1>x DEF IInv

\* When the program has ended with an exception nothing is claimed.
LEMMA EndedStep ==
  ASSUME IInv, stage \in {"target", "enabled", "extensions", "libraries"}, stage' = "exception",
         UNCHANGED <<place, argumentVars, loaderVars>>
  PROVE  IInv'
<1> USE DEF loaderVars
<1>1. PreprocessorTypeOK' BY DEF IInv, PreprocessorTypeOK, argumentVars
<1>2. OptionsOK' BY OptionsStay
<1>3. CountsOK' BY DEF IInv, CountsOK
<1>4. BeforeOK' /\ EnabledOK' /\ ExtensionsOK' /\ LoadedOK' /\ LibrariesOK' /\ VisitedOK' /\ DoneOK'
  BY DEF BeforeOK, EnabledOK, ExtensionsOK, LoadedOK, LibrariesOK, VisitedOK, DoneOK
<1> QED BY <1>1, <1>2, <1>3, <1>4 DEF IInv

LEMMA TargetRefusedStep == ASSUME IInv, TargetRefused PROVE IInv'
<1> QED BY EndedStep DEF TargetRefused

LEMMA LoadFailsStep == ASSUME IInv, LoadFails PROVE IInv'
<1>1. stage \in {"enabled", "extensions", "libraries"} BY DEF LoadFails, Calls
<1> QED BY <1>1, EndedStep DEF LoadFails

\* The calls are for fewer names than there are calls: the builder files
\* have a cycle.
LEMMA MemoryExhaustedStep == ASSUME IInv, MemoryExhausted PROVE IInv'
<1>1. /\ stage \in {"extensions", "libraries"} /\ stage' = "exhausted" /\ Len(calls) > Deepest
      /\ UNCHANGED <<place, argumentVars, loaderVars>>
  BY DEF MemoryExhausted
<1>2. /\ calls \in Seq(SUBSET (Extension \cup Library)) /\ Len(calls) \in Nat
      /\ DOMAIN extensionMap \subseteq Extension /\ DOMAIN libraryMap \subseteq Library
  BY DEF IInv, PreprocessorTypeOK
<1>3. Cyclic(dependentExtensions) \/ Cyclic(libraryMap)
  <2>1. CASE stage = "extensions"
    <3>1. PICK k \in Nat : k = Len(calls) BY <1>2
    <3>2. /\ IsFiniteSet(DOMAIN extensionMap)
          /\ Cardinality(DOMAIN extensionMap) \in Nat
          /\ Cardinality(DOMAIN extensionMap) <= Cardinality(Extension)
      BY <1>2, NamesFinite, FS_Subset, FS_CardinalityType
    <3>3. Cardinality(DOMAIN extensionMap) < k BY <1>1, <3>1, <3>2, NamesFinite DEF Deepest
    <3>4. Called(calls, k, DOMAIN extensionMap, dependentExtensions, {})
      BY <2>1, <3>1 DEF IInv, ExtensionsOK
    <3>5. DOMAIN dependentExtensions = DOMAIN extensionMap BY DEF dependentExtensions
    <3> QED BY <3>2, <3>3, <3>4, <3>5, DeepIsCyclic
  <2>2. CASE stage = "libraries"
    <3>1. PICK len \in Nat : len = Len(calls) BY <1>2
    <3>2. /\ IsFiniteSet(DOMAIN libraryMap)
          /\ Cardinality(DOMAIN libraryMap) \in Nat
          /\ Cardinality(DOMAIN libraryMap) <= Cardinality(Library)
      BY <1>2, NamesFinite, FS_Subset, FS_CardinalityType
    <3>3. len > Cardinality(Extension) + Cardinality(Library) BY <1>1, <3>1 DEF Deepest
    <3>4. calls # <<>>
      <4>1. len > 0 BY <3>3, NamesFinite
      <4>2. Len(<<>>) = 0 OBVIOUS
      <4> QED BY <3>1, <4>1, <4>2
    <3>5. Cardinality(Extension) >= 1
      <4>1. Extension # {} BY <2>2, <3>4 DEF IInv, LibrariesOK
      <4>2. Cardinality(Extension) # 0 BY <4>1, NamesFinite, FS_EmptySet
      <4> QED BY <4>2, NamesFinite
    <3>6. PICK k \in Nat : k = len - 1 BY <3>3, NamesFinite
    <3>7. Cardinality(DOMAIN libraryMap) < k BY <3>2, <3>3, <3>5, <3>6, NamesFinite
    <3>8. Called(calls, k, DOMAIN libraryMap, libraryMap, LibrariesWanted)
      BY <2>2, <3>1, <3>6 DEF IInv, LibrariesOK
    <3> QED BY <3>2, <3>7, <3>8, DeepIsCyclic
  <2> QED BY <1>1, <2>1, <2>2
<1> USE DEF loaderVars
<1>4. PreprocessorTypeOK' BY <1>1 DEF IInv, PreprocessorTypeOK, argumentVars
<1>5. OptionsOK' BY <1>1, OptionsStay
<1>6. CountsOK' BY <1>1 DEF IInv, CountsOK
<1>7. DoneOK' BY <1>1, <1>3 DEF DoneOK, dependentExtensions
<1>8. BeforeOK' /\ EnabledOK' /\ ExtensionsOK' /\ LoadedOK' /\ LibrariesOK' /\ VisitedOK'
  BY <1>1 DEF BeforeOK, EnabledOK, ExtensionsOK, LoadedOK, LibrariesOK, VisitedOK
<1> QED BY <1>4, <1>5, <1>6, <1>7, <1>8 DEF IInv

LEMMA sortLibraryStep == ASSUME IInv, sortLibrary PROVE IInv'
<1>1. stage = "libraries" /\ UNCHANGED <<place, argumentVars, loaderVars>> BY DEF sortLibrary
<1>2. CASE stage' = "exception" BY <1>1, <1>2, EndedStep
<1>3. CASE stage' # "exception"
  <2>1. /\ stage' = "done" /\ ~Cyclic(libraryMap)
        /\ \A l \in DOMAIN libraryMap : libraryMap[l] \subseteq DOMAIN libraryMap
        /\ \A e \in DOMAIN extensionMap : extensionMap[e].deps \subseteq DOMAIN libraryMap
    BY <1>3 DEF sortLibrary
  <2>2. LeastClosed(DOMAIN libraryMap, LibrariesWanted, libraryMap)
    <3>1. LibrariesWanted \subseteq DOMAIN libraryMap BY <2>1 DEF LibrariesWanted
    <3>2. Grown(DOMAIN libraryMap, LibrariesWanted, libraryMap)
      BY <1>1 DEF IInv, LibrariesOK
    <3> QED BY <2>1, <3>1, <3>2 DEF LeastClosed, Grown
  <2> USE DEF loaderVars
  <2>3. PreprocessorTypeOK' BY <1>1, <2>1 DEF IInv, PreprocessorTypeOK, argumentVars
  <2>4. OptionsOK' /\ Wanted' = Wanted BY <1>1, <2>1, OptionsStay
  <2>5. CountsOK' BY <1>1 DEF IInv, CountsOK
  <2>6. dependentExtensions' = dependentExtensions /\ LibrariesWanted' = LibrariesWanted
    BY <1>1 DEF dependentExtensions, LibrariesWanted
  <2>7. LoadedOK' BY <1>1, <2>4, <2>6 DEF IInv, LoadedOK
  <2>8. DoneOK' BY <1>1, <2>1, <2>2, <2>6 DEF DoneOK
  <2>9. BeforeOK' /\ EnabledOK' /\ ExtensionsOK' /\ LibrariesOK' /\ VisitedOK'
    BY <2>1 DEF BeforeOK, EnabledOK, ExtensionsOK, LibrariesOK, VisitedOK
  <2> QED BY <2>3, <2>4, <2>5, <2>7, <2>8, <2>9 DEF IInv
<1> QED BY <1>2, <1>3

-----------------------------------------------------------------------------
(* The invariant and what follows from it.                                 *)

LEMMA InitInv == PreprocessorInit => IInv
<1> SUFFICES ASSUME PreprocessorInit PROVE IInv OBVIOUS
<1>1. /\ stage = "target" /\ extEnabled = OnceEach(enabled_extensions)
      /\ place = [e \in Extension |-> "nowhere"] /\ extensionMap = <<>> /\ libraryMap = <<>>
      /\ listed = [extensions |-> 0, libraries |-> 0]
      /\ todo = {} /\ calls = <<>> /\ options = <<>>
  BY DEF PreprocessorInit
<1>2. DOMAIN <<>> = {} /\ Len(<<>>) = 0 OBVIOUS
<1>3. extEnabled \in [Extension -> 0 .. 1] BY <1>1, OnceEachType, NamesFinite
<1>4. PreprocessorTypeOK
  <2>1. extEnabled \in [Extension -> 0 .. MaxOptions + 1] BY <1>3, NamesFinite
  <2>2. options \in Seq({"+", "-"} \X Extension) /\ calls \in Seq(SUBSET (Extension \cup Library))
    BY <1>1
  <2>3. place \in [Extension -> Place] BY <1>1 DEF Place
  <2> QED BY <1>1, <1>2, <2>1, <2>2, <2>3, NamesFinite DEF PreprocessorTypeOK
<1>5. OptionsOK BY <1>1, <1>3, NoOptions
<1>6. CountsOK BY <1>1, <1>2, NamesFinite DEF CountsOK
<1>7. BeforeOK /\ EnabledOK /\ ExtensionsOK /\ LoadedOK /\ LibrariesOK /\ VisitedOK /\ DoneOK
  BY <1>1, <1>2 DEF BeforeOK, EnabledOK, ExtensionsOK, LoadedOK, LibrariesOK, VisitedOK, DoneOK
<1> QED BY <1>4, <1>5, <1>6, <1>7 DEF IInv

LEMMA NextInv == IInv /\ [PreprocessorNext]_preprocessorVars => IInv'
<1> SUFFICES ASSUME IInv, [PreprocessorNext]_preprocessorVars PROVE IInv' OBVIOUS
<1>1. CASE MobileTarget BY <1>1, MobileTargetStep
<1>2. CASE TargetKnown BY <1>2, TargetKnownStep
<1>3. CASE OptionsDone BY <1>3, OptionsDoneStep
<1>4. ASSUME NEW e \in Extension,
             \/ SwitchOn(e) \/ SwitchOff(e) \/ EnabledUnsupported(e) \/ EnabledRead(e)
             \/ NextExtension(e) \/ LoadDependentExtension(e)
      PROVE  IInv'
  <2>1. CASE SwitchOn(e) \/ SwitchOff(e) BY <2>1, OptionSteps
  <2>2. CASE EnabledUnsupported(e) BY <2>2, EnabledUnsupportedStep
  <2>3. CASE EnabledRead(e) BY <2>3, EnabledReadStep
  <2>4. CASE NextExtension(e) BY <2>4, NextExtensionStep
  <2>5. CASE LoadDependentExtension(e) BY <2>5, LoadDependentExtensionStep
  <2> QED BY <1>4, <2>1, <2>2, <2>3, <2>4, <2>5
<1>5. ASSUME NEW l \in Library, LoadDependentLibrary(l) PROVE IInv'
  BY <1>5, LoadDependentLibraryStep
<1>6. CASE EnabledDone BY <1>6, EnabledDoneStep
<1>7. CASE ExtensionsDone BY <1>7, ExtensionsDoneStep
<1>8. CASE Return BY <1>8, ReturnStep
<1>9. CASE LoadFails BY <1>9, LoadFailsStep
<1>10. CASE MemoryExhausted BY <1>10, MemoryExhaustedStep
<1>11. CASE sortLibrary BY <1>11, sortLibraryStep
<1>12. CASE TargetRefused BY <1>12, TargetRefusedStep
<1>13. CASE UNCHANGED preprocessorVars
  <2> USE <1>13 DEF preprocessorVars
  <2>1. PreprocessorTypeOK' BY DEF IInv, PreprocessorTypeOK
  <2>2. OptionsOK' BY DEF IInv, OptionsOK, Given
  <2>3. CountsOK' BY DEF IInv, CountsOK
  <2>4. BeforeOK' BY DEF IInv, BeforeOK
  <2>5. /\ Wanted' = Wanted /\ Enabled' = Enabled /\ LibrariesWanted' = LibrariesWanted
        /\ dependentExtensions' = dependentExtensions
    BY DEF Wanted, Enabled, LibrariesWanted, dependentExtensions
  <2>6. EnabledOK' BY <2>5 DEF IInv, EnabledOK
  <2>7. ExtensionsOK' BY <2>5 DEF IInv, ExtensionsOK
  <2>8. LoadedOK' /\ LibrariesOK' /\ VisitedOK' /\ DoneOK' BY <2>5 DEF IInv, LoadedOK, LibrariesOK, VisitedOK, DoneOK
  <2> QED BY <2>1, <2>2, <2>3, <2>4, <2>6, <2>7, <2>8 DEF IInv
<1> QED
  BY <1>1, <1>2, <1>3, <1>4, <1>5, <1>6, <1>7, <1>8, <1>9, <1>10, <1>11, <1>12,
     <1>13
  DEF PreprocessorNext

LEMMA InvAlways == PreprocessorSpec => []IInv
<1> QED BY InitInv, NextInv, PTL DEF PreprocessorSpec

\* A set of positions has a last one.
LEMMA LastPosition ==
  ASSUME NEW n \in Nat, NEW s \in SUBSET (1 .. n), s # {}
  PROVE  \E i \in s : \A j \in s : j <= i
<1> DEFINE Back == {k \in Nat : \E i \in s : k = n - i}
           LessThan == {ij \in Nat \X Nat : ij[1] < ij[2]}
<1>1. Back \subseteq Nat /\ Back # {}
  <2>1. PICK i \in s : TRUE OBVIOUS
  <2>2. n - i \in Back BY <2>1
  <2> QED BY <2>2
<1>2. IsWellFoundedOn(LessThan, Nat) BY NatLessThanWellFounded DEF OpToRel
<1>3. PICK k \in Back : \A j \in Back : ~(<<j, k>> \in LessThan)
  <2> HIDE DEF Back, LessThan
  <2> QED BY <1>1, <1>2, WFMin
<1>4. PICK i \in s : k = n - i BY <1>3
<1>5. ASSUME NEW j \in s PROVE j <= i
  <2>1. n - j \in Back BY <1>5
  <2>2. ~(n - j < k)
    <3>1. <<n - j, k>> \in Nat \X Nat BY <1>1, <2>1
    <3> QED BY <1>3, <2>1, <3>1
  <2> QED BY <1>4, <2>2
<1> QED BY <1>5

LEMMA OptionsFollow == IInv => OptionsWin
<1> SUFFICES ASSUME IInv, NEW e \in Extension, Given(e) # {}
             PROVE  LET last == CHOOSE i \in Given(e) : \A j \in Given(e) : j <= i
                    IN /\ options[last][1] = "+" => e \in Enabled
                       /\ (\A i \in Given(e) : options[i][1] = "-") => e \notin Enabled
  <2>1. DOMAIN options = 1 .. Len(options) BY DEF IInv, PreprocessorTypeOK
  <2> QED BY <2>1 DEF OptionsWin, Given
<1> DEFINE last == CHOOSE i \in Given(e) : \A j \in Given(e) : j <= i
<1>1. /\ Given(e) \in SUBSET (1 .. Len(options)) /\ Len(options) \in Nat
      /\ extEnabled[e] \in Nat
  BY NamesFinite DEF IInv, PreprocessorTypeOK, Given
<1>2. \E i \in Given(e) : \A j \in Given(e) : j <= i BY <1>1, LastPosition
<1>3. last \in Given(e) /\ \A j \in Given(e) : j <= last BY <1>2
<1> HIDE DEF last
<1>4. options[last][1] = "+" => e \in Enabled BY <1>3 DEF IInv, OptionsOK, Enabled
<1>5. (\A i \in Given(e) : options[i][1] = "-") => e \notin Enabled
  BY <1>1 DEF IInv, OptionsOK, Enabled
<1> QED BY <1>4, <1>5 DEF last

\* The variables keep their types; in particular extensionMap and libraryMap
\* have what addExtension and addLibrary of Preprocessor.php put there, and
\* an extension is on the list of parseArguments once for the target and once
\* for every + of the command line at most.
THEOREM BuildTypeCorrect == PreprocessorSpec => []PreprocessorTypeOK
<1>1. IInv => PreprocessorTypeOK BY DEF IInv
<1> QED BY <1>1, InvAlways, PTL

\* What execute of Preprocessor.php generates has the extensions asked for,
\* with all they need and nothing else; a cycle of the builder files never
\* gets that far; and the options of the command line win over the target.
THEOREM BuildsRight == PreprocessorSpec => []BuildRight
<1>1. IInv => BuiltAsNeeded
  BY DEF IInv, LoadedOK, DoneOK, CountsOK, BuiltAsNeeded, Wanted, LibrariesWanted
<1>2. IInv => CyclesRefused BY DEF IInv, LoadedOK, DoneOK, CyclesRefused
<1>3. IInv => BuildRight BY <1>1, <1>2, OptionsFollow DEF BuildRight
<1> QED BY <1>3, InvAlways, PTL

\* When the loaders have finished there is nothing left for sortLibrary to
\* refuse: no library is missing, none that an extension lists either, and
\* no cycle is left, because the loaders do not come back from one.
NothingToRefuse ==
  stage = "libraries" /\ todo = {} /\ calls = <<>> =>
    /\ ~Cyclic(libraryMap)
    /\ \A l \in DOMAIN libraryMap : libraryMap[l] \subseteq DOMAIN libraryMap
    /\ \A e \in DOMAIN extensionMap : extensionMap[e].deps \subseteq DOMAIN libraryMap

THEOREM NothingIsRefused == PreprocessorSpec => []NothingToRefuse
<1>1. ASSUME IInv, stage = "libraries", todo = {}, calls = <<>>
      PROVE  /\ ~Cyclic(libraryMap)
             /\ \A l \in DOMAIN libraryMap : libraryMap[l] \subseteq DOMAIN libraryMap
             /\ \A e \in DOMAIN extensionMap : extensionMap[e].deps \subseteq DOMAIN libraryMap
  <2>0. 1 .. Len(<<>>) = {} OBVIOUS
  <2>1. /\ \A e \in DOMAIN extensionMap : \A d \in extensionMap[e].deps : d \in DOMAIN libraryMap
        /\ Covered(DOMAIN libraryMap, libraryMap, <<>>, {})
        /\ CyclesAhead(DOMAIN libraryMap, libraryMap, <<>>, {})
    BY <1>1, <2>0 DEF IInv, VisitedOK, Reached
  <2>2. \A l \in DOMAIN libraryMap : libraryMap[l] \subseteq DOMAIN libraryMap
    BY <2>0, <2>1 DEF Covered
  <2>3. ~Cyclic(libraryMap) BY <2>0, <2>1 DEF Cyclic, CyclesAhead, Endless
  <2> QED BY <2>1, <2>2, <2>3
<1>2. IInv => NothingToRefuse BY <1>1 DEF NothingToRefuse
<1> QED BY <1>2, InvAlways, PTL
=============================================================================
