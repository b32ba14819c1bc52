--------------------------- MODULE ZendGC_proofs ---------------------------
(***************************************************************************)
(* Proofs about ZendGC, for every number of objects, variables and         *)
(* properties, and every nesting of destructors.                           *)
(***************************************************************************)
EXTENDS ZendGC, FiniteSetTheorems, NaturalsInduction, WellFoundedInduction, TLAPS

(***************************************************************************)
(* What is found from a set: the least set that contains it and is closed. *)
(* P stands for prop and F for free_called, so that the lemmas can be said *)
(* of both states of a step.                                               *)
(***************************************************************************)
SuccIn(P, n) == {e[2] : e \in {x \in P : x[1] = n}}
VisitedIn(P, F, n) == IF n \in F THEN {} ELSE SuccIn(P, n)

NextRound(P, F, T, A) == A \cup (T \cap UNION {VisitedIn(P, F, n) : n \in A})

Rounds(P, F, S, T, k, f) ==
  f = [i \in 0 .. k |-> IF i = 0 THEN S ELSE NextRound(P, F, T, f[i - 1])]

ClosureIn(P, F, S, T) ==
  LET r[i \in 0 .. Cardinality(Object)] ==
        IF i = 0 THEN S ELSE r[i - 1] \cup (T \cap UNION {VisitedIn(P, F, n) : n \in r[i - 1]})
  IN r[Cardinality(Object)]

LEMMA ClosureIsIn ==
  ASSUME NEW S, NEW T
  PROVE  Closure(S, T) = ClosureIn(prop, free_called, S, T)
BY DEF Closure, ClosureIn, Visited, VisitedIn, Succ, SuccIn

LEMMA ClosureIsInNext ==
  ASSUME NEW S, NEW T
  PROVE  Closure(S, T)' = ClosureIn(prop', free_called', S, T)
BY DEF Closure, ClosureIn, Visited, VisitedIn, Succ, SuccIn

\* A least element of a set of numbers.
LEMMA LeastNumber ==
  ASSUME NEW S \in SUBSET Nat, S # {}
  PROVE  \E i \in S : \A j \in S : i <= j
<1> DEFINE LessThan == {ij \in Nat \X Nat : ij[1] < ij[2]}
<1>1. IsWellFoundedOn(LessThan, Nat) BY NatLessThanWellFounded DEF OpToRel
<1>2. PICK i \in S : \A j \in S : ~(<<j, i>> \in LessThan)
  <2> HIDE DEF LessThan
  <2> QED BY <1>1, WFMin
<1>3. \A j \in S : i <= j
  <2> SUFFICES ASSUME NEW j \in S PROVE ~(j < i) OBVIOUS
  <2>1. <<j, i>> \in Nat \X Nat OBVIOUS
  <2> QED BY <1>2, <2>1
<1> QED BY <1>3

\* The rounds can be made.
LEMMA RoundsExist ==
  ASSUME NEW P, NEW F, NEW S, NEW T, NEW k \in Nat
  PROVE  \E f : Rounds(P, F, S, T, k, f)
<1> DEFINE Bad == {j \in Nat : ~\E f : Rounds(P, F, S, T, j, f)}
<1> SUFFICES ASSUME Bad # {} PROVE FALSE OBVIOUS
<1>1. PICK j \in Bad : \A i \in Bad : j <= i
  <2>1. Bad \in SUBSET Nat OBVIOUS
  <2> HIDE DEF Bad
  <2> QED BY <2>1, LeastNumber
<1>2. CASE j = 0
  <2> DEFINE f == [i \in 0 .. 0 |-> S]
  <2>1. Rounds(P, F, S, T, 0, f) BY DEF Rounds
  <2> QED BY <2>1, <1>2
<1>3. CASE j # 0
  <2>1. j - 1 \in Nat /\ j - 1 \notin Bad BY <1>1, <1>3
  <2>2. PICK g : Rounds(P, F, S, T, j - 1, g) BY <2>1
  <2> DEFINE f == [i \in 0 .. j |-> IF i = j THEN NextRound(P, F, T, g[j - 1]) ELSE g[i]]
  <2>3. \A i \in 0 .. j - 1 : f[i] = g[i] BY <1>3
  <2>4. \A i \in 0 .. j - 1 : g[i] = IF i = 0 THEN S ELSE NextRound(P, F, T, g[i - 1])
    BY <2>2 DEF Rounds
  <2>5. ASSUME NEW i \in 0 .. j
        PROVE  f[i] = IF i = 0 THEN S ELSE NextRound(P, F, T, f[i - 1])
    <3>1. CASE i = j
      <4>1. f[j - 1] = g[j - 1] BY <2>3, <2>1
      <4>2. f[j] = NextRound(P, F, T, g[j - 1]) OBVIOUS
      <4> HIDE DEF f
      <4> QED BY <4>1, <4>2, <3>1, <1>3
    <3>2. CASE i # j
      <4>1. i \in 0 .. j - 1 /\ (i # 0 => i - 1 \in 0 .. j - 1) BY <3>2
      <4>2. f[i] = g[i] /\ (i # 0 => f[i - 1] = g[i - 1]) BY <2>3, <4>1
      <4> HIDE DEF f
      <4> QED BY <4>1, <4>2, <2>4
    <3> QED BY <3>1, <3>2
  <2>6. Rounds(P, F, S, T, j, f)
    <3>1. f = [i \in 0 .. j |-> f[i]] OBVIOUS
    <3> HIDE DEF f
    <3> QED BY <3>1, <2>5 DEF Rounds
  <2> QED BY <2>6
<1> QED BY <1>2, <1>3

LEMMA InNextRound ==
  ASSUME NEW P, NEW F, NEW T, NEW A
  PROVE  /\ A \subseteq NextRound(P, F, T, A)
         /\ \A n \in A : (T \cap VisitedIn(P, F, n)) \subseteq NextRound(P, F, T, A)
         /\ \A x \in NextRound(P, F, T, A) : x \in A \/ (x \in T /\ \E n \in A : x \in VisitedIn(P, F, n))
BY DEF NextRound

LEMMA ClosureRounds ==
  ASSUME NEW P, NEW F, NEW S, NEW T
  PROVE  \E f : Rounds(P, F, S, T, Cardinality(Object), f) /\ ClosureIn(P, F, S, T) = f[Cardinality(Object)]
<1> DEFINE r == CHOOSE f : Rounds(P, F, S, T, Cardinality(Object), f)
<1>1. Cardinality(Object) \in Nat BY GCAssumption, FS_CardinalityType
<1>2. Rounds(P, F, S, T, Cardinality(Object), r) BY <1>1, RoundsExist
<1>3. ClosureIn(P, F, S, T) = r[Cardinality(Object)] BY DEF ClosureIn, Rounds, NextRound
<1> QED BY <1>2, <1>3

LEMMA RoundsStep ==
  ASSUME NEW P, NEW F, NEW S, NEW T, NEW k \in Nat, NEW f, Rounds(P, F, S, T, k, f)
  PROVE  /\ f[0] = S
         /\ \A i \in 1 .. k : f[i] = NextRound(P, F, T, f[i - 1])
<1>1. \A i \in 0 .. k : f[i] = IF i = 0 THEN S ELSE NextRound(P, F, T, f[i - 1])
  BY DEF Rounds
<1>2. 0 \in 0 .. k /\ \A i \in 1 .. k : i \in 0 .. k /\ i # 0 OBVIOUS
<1> QED BY <1>1, <1>2

\* No round leaves a set that is closed and contains the first one.
Encloses(P, F, S, T, X) == S \subseteq X /\ \A n \in X : (T \cap VisitedIn(P, F, n)) \subseteq X

LEMMA RoundsWithin ==
  ASSUME NEW P, NEW F, NEW S, NEW T, NEW k \in Nat, NEW f, Rounds(P, F, S, T, k, f),
         NEW X, Encloses(P, F, S, T, X)
  PROVE  \A i \in 0 .. k : f[i] \subseteq X
<1> DEFINE Bad == {i \in 0 .. k : ~(f[i] \subseteq X)}
<1> SUFFICES ASSUME Bad # {} PROVE FALSE OBVIOUS
<1>1. PICK j \in Bad : \A i \in Bad : j <= i
  <2>1. Bad \in SUBSET Nat OBVIOUS
  <2> HIDE DEF Bad
  <2> QED BY <2>1, LeastNumber
<1>2. j # 0 BY <1>1, RoundsStep DEF Encloses
<1>3. j - 1 \in 0 .. k /\ j - 1 \notin Bad /\ j \in 1 .. k BY <1>1, <1>2
<1>4. f[j - 1] \subseteq X BY <1>3
<1>5. f[j] = NextRound(P, F, T, f[j - 1]) BY <1>3, RoundsStep
<1>6. \A x \in f[j] : x \in f[j - 1] \/ (x \in T /\ \E n \in f[j - 1] : x \in VisitedIn(P, F, n))
  BY <1>5, InNextRound
<1>7. ~(f[j] \subseteq X) BY <1>1
<1> QED BY <1>4, <1>6, <1>7 DEF Encloses

\* What is in a round is in all that follow.
LEMMA RoundsGrow ==
  ASSUME NEW P, NEW F, NEW S, NEW T, NEW k \in Nat, NEW f, Rounds(P, F, S, T, k, f), NEW j \in 0 .. k
  PROVE  \A i \in j .. k : f[j] \subseteq f[i]
<1> DEFINE Bad == {i \in j .. k : ~(f[j] \subseteq f[i])}
<1> SUFFICES ASSUME Bad # {} PROVE FALSE OBVIOUS
<1>1. PICK m \in Bad : \A i \in Bad : m <= i
  <2>1. Bad \in SUBSET Nat OBVIOUS
  <2> HIDE DEF Bad
  <2> QED BY <2>1, LeastNumber
<1>2. m # j BY <1>1
<1>3. m - 1 \in j .. k /\ m - 1 \notin Bad /\ m \in 1 .. k BY <1>1, <1>2
<1>4. f[j] \subseteq f[m - 1] BY <1>3
<1>5. f[m - 1] \subseteq f[m]
  <2>1. f[m] = NextRound(P, F, T, f[m - 1]) BY <1>3, RoundsStep
  <2> QED BY <2>1, InNextRound
<1>6. ~(f[j] \subseteq f[m]) BY <1>1
<1> QED BY <1>4, <1>5, <1>6

\* A round that adds nothing is closed, and so is the last one.
LEMMA RoundsStable ==
  ASSUME NEW P, NEW F, NEW S, NEW T, NEW k \in Nat, NEW f, Rounds(P, F, S, T, k, f),
         NEW j \in 0 .. k - 1, f[j + 1] = f[j]
  PROVE  \A n \in f[k] : (T \cap VisitedIn(P, F, n)) \subseteq f[k]
<1>1. j + 1 \in 1 .. k /\ (j + 1) - 1 = j OBVIOUS
<1>2. f[j + 1] = NextRound(P, F, T, f[j]) BY <1>1, RoundsStep
<1>3. \A n \in f[j] : (T \cap VisitedIn(P, F, n)) \subseteq f[j] BY <1>2, InNextRound
<1>4. S \subseteq f[j]
  <2>1. 0 \in 0 .. k /\ j \in 0 .. k OBVIOUS
  <2>2. f[0] \subseteq f[j] BY <2>1, RoundsGrow
  <2> QED BY <2>2, RoundsStep
<1>5. k \in 0 .. k /\ j \in 0 .. k /\ k \in j .. k OBVIOUS
<1>6. f[k] \subseteq f[j]
  <2>1. Encloses(P, F, S, T, f[j]) BY <1>3, <1>4 DEF Encloses
  <2> QED BY <2>1, <1>5, RoundsWithin
<1>7. f[j] \subseteq f[k] BY <1>5, RoundsGrow
<1>8. f[k] = f[j] BY <1>6, <1>7
<1> QED BY <1>3, <1>8

\* There are not more rounds that add something than objects.
LEMMA RoundsEnd ==
  ASSUME NEW P \in SUBSET (Object \X Object), NEW F, NEW S, NEW T, NEW f,
         Rounds(P, F, S, T, Cardinality(Object), f), Object # {}
  PROVE  \E j \in 0 .. Cardinality(Object) - 1 : f[j + 1] = f[j]
<1> DEFINE N == Cardinality(Object)
<1> SUFFICES ASSUME \A j \in 0 .. N - 1 : f[j + 1] # f[j] PROVE FALSE OBVIOUS
<1>1. N \in Nat \ {0} /\ IsFiniteSet(Object) BY GCAssumption, FS_CardinalityType, FS_EmptySet
<1> HIDE DEF N
<1>2. \A n : VisitedIn(P, F, n) \subseteq Object BY DEF VisitedIn, SuccIn
<1>3. \A n : n \notin Object => VisitedIn(P, F, n) = {} BY DEF VisitedIn, SuccIn
<1>4. \A j \in 0 .. N - 1 : f[j + 1] = NextRound(P, F, T, f[j])
  <2> SUFFICES ASSUME NEW j \in 0 .. N - 1
               PROVE  f[j + 1] = NextRound(P, F, T, f[j])
    OBVIOUS
  <2>1. j + 1 \in 1 .. N /\ (j + 1) - 1 = j BY <1>1
  <2>2. \A i \in 1 .. N : f[i] = NextRound(P, F, T, f[i - 1])
    BY <1>1, RoundsStep DEF N
  <2> QED BY <2>1, <2>2
<1> DEFINE C(i) == Cardinality(f[i] \cap Object)
           Bad == {i \in 0 .. N : ~(C(i) >= i + 1)}
<1>5. \A i : IsFiniteSet(f[i] \cap Object) /\ C(i) \in Nat
  <2> SUFFICES ASSUME NEW i PROVE IsFiniteSet(f[i] \cap Object) /\ C(i) \in Nat OBVIOUS
  <2>1. f[i] \cap Object \in SUBSET Object OBVIOUS
  <2> QED BY <2>1, <1>1, FS_Subset, FS_CardinalityType
<1>6. Bad = {}
  <2> SUFFICES ASSUME Bad # {} PROVE FALSE OBVIOUS
  <2>1. PICK j \in Bad : \A i \in Bad : j <= i
    <3>1. Bad \in SUBSET Nat OBVIOUS
    <3> HIDE DEF Bad
    <3> QED BY <3>1, LeastNumber
  <2>2. CASE j = 0
    <3>1. 0 \in 0 .. N - 1 BY <1>1
    <3>2. f[0 + 1] # f[0] BY <3>1
    <3>3. f[0 + 1] = NextRound(P, F, T, f[0]) BY <3>1, <1>4
    <3>4. PICK n \in f[0] : VisitedIn(P, F, n) # {}
      <4>1. f[0] \subseteq f[0 + 1] BY <3>3, InNextRound
      <4>2. \A x \in f[0 + 1] : x \in f[0] \/ (x \in T /\ \E n \in f[0] : x \in VisitedIn(P, F, n))
        BY <3>3, InNextRound
      <4> QED BY <3>2, <4>1, <4>2
    <3>5. f[0] \cap Object # {} BY <3>4, <1>3
    <3>6. C(0) # 0 BY <1>5, <3>5, FS_EmptySet
    <3>7. C(0) >= 0 + 1
      <4>1. C(0) \in Nat BY <1>5
      <4> HIDE DEF C
      <4> QED BY <3>6, <4>1
    <3> QED BY <3>7, <2>1, <2>2
  <2>3. CASE j # 0
    <3>1. j - 1 \in 0 .. N - 1 /\ j - 1 \in 0 .. N /\ j - 1 \notin Bad /\ (j - 1) + 1 = j BY <2>1, <2>3, <1>1
    <3>2. C(j - 1) >= j BY <3>1
    <3>3. f[j] # f[j - 1] /\ f[j] = NextRound(P, F, T, f[j - 1])
      BY <3>1, <1>4
    <3>4. PICK x \in f[j] : x \notin f[j - 1] /\ x \in Object
      <4>1. f[j - 1] \subseteq f[j] BY <3>3, InNextRound
      <4>2. \A x \in f[j] : x \in f[j - 1] \/ (x \in T /\ \E n \in f[j - 1] : x \in VisitedIn(P, F, n))
        BY <3>3, InNextRound
      <4> QED BY <3>3, <4>1, <4>2, <1>2
    <3>5. f[j - 1] \cap Object \in SUBSET ((f[j] \cap Object) \ {x}) BY <3>3, <3>4, InNextRound
    <3>6. IsFiniteSet((f[j] \cap Object) \ {x}) /\ Cardinality((f[j] \cap Object) \ {x}) = C(j) - 1
      BY <3>4, <1>5, FS_RemoveElement
    <3>7. C(j - 1) <= C(j) - 1 BY <3>5, <3>6, FS_Subset
    <3>8. C(j) >= j + 1
      <4>1. C(j - 1) \in Nat /\ C(j) \in Nat BY <1>5
      <4> HIDE DEF C
      <4> QED BY <3>2, <3>7, <4>1, <2>1
    <3> QED BY <3>8, <2>1
  <2> QED BY <2>2, <2>3
<1>7. C(N) >= N + 1
  <2>1. N \in 0 .. N BY <1>1
  <2>2. \A i \in 0 .. N : C(i) >= i + 1
    <3> HIDE DEF C
    <3> QED BY <1>6
  <2> HIDE DEF C
  <2> QED BY <2>1, <2>2
<1>8. C(N) <= N
  <2>1. f[N] \cap Object \in SUBSET Object OBVIOUS
  <2> QED BY <2>1, <1>1, FS_Subset DEF N
<1> QED BY <1>7, <1>8, <1>5, <1>1

\* The closure contains the set, is closed, and is the least such.
LEMMA ClosureContains ==
  ASSUME NEW P, NEW F, NEW S, NEW T
  PROVE  S \subseteq ClosureIn(P, F, S, T)
<1>1. Cardinality(Object) \in Nat BY GCAssumption, FS_CardinalityType
<1>2. PICK f : Rounds(P, F, S, T, Cardinality(Object), f) /\ ClosureIn(P, F, S, T) = f[Cardinality(Object)]
  BY ClosureRounds
<1>3. 0 \in 0 .. Cardinality(Object) /\ Cardinality(Object) \in 0 .. Cardinality(Object) BY <1>1
<1>4. f[0] \subseteq f[Cardinality(Object)] BY <1>1, <1>2, <1>3, RoundsGrow
<1>5. f[0] = S BY <1>1, <1>2, RoundsStep
<1> QED BY <1>2, <1>4, <1>5

LEMMA ClosureClosed ==
  ASSUME NEW P \in SUBSET (Object \X Object), NEW F, NEW S, NEW T,
         NEW n \in ClosureIn(P, F, S, T)
  PROVE  (T \cap VisitedIn(P, F, n)) \subseteq ClosureIn(P, F, S, T)
<1>1. Cardinality(Object) \in Nat BY GCAssumption, FS_CardinalityType
<1>2. PICK f : Rounds(P, F, S, T, Cardinality(Object), f) /\ ClosureIn(P, F, S, T) = f[Cardinality(Object)]
  BY ClosureRounds
<1>3. CASE Object = {}
  <2>1. VisitedIn(P, F, n) = {} BY <1>3 DEF VisitedIn, SuccIn
  <2> QED BY <2>1
<1>4. CASE Object # {}
  <2>1. PICK j \in 0 .. Cardinality(Object) - 1 : f[j + 1] = f[j] BY <1>2, <1>4, RoundsEnd
  <2>2. \A m \in f[Cardinality(Object)] : (T \cap VisitedIn(P, F, m)) \subseteq f[Cardinality(Object)]
    BY <1>1, <1>2, <2>1, RoundsStable
  <2> QED BY <2>2, <1>2
<1> QED BY <1>3, <1>4

LEMMA ClosureLeast ==
  ASSUME NEW P, NEW F, NEW S, NEW T,
         NEW X, S \subseteq X, \A n \in X : (T \cap VisitedIn(P, F, n)) \subseteq X
  PROVE  ClosureIn(P, F, S, T) \subseteq X
<1>1. Cardinality(Object) \in Nat BY GCAssumption, FS_CardinalityType
<1>2. PICK f : Rounds(P, F, S, T, Cardinality(Object), f) /\ ClosureIn(P, F, S, T) = f[Cardinality(Object)]
  BY ClosureRounds
<1> DEFINE N == Cardinality(Object)
<1>3. Rounds(P, F, S, T, N, f) /\ N \in Nat BY <1>1, <1>2
<1> HIDE DEF N
<1>4. \A i \in 0 .. N : f[i] \subseteq X
  <2>1. Encloses(P, F, S, T, X) BY DEF Encloses
  <2> QED BY <2>1, <1>3, RoundsWithin
<1>5. f[N] \subseteq X BY <1>3, <1>4
<1> QED BY <1>2, <1>5 DEF N

-----------------------------------------------------------------------------
(* The calls under way.                                                    *)

CallRec == [op : Ops, obj : Object \cup {"none"}]

CallSet(s) == {s[i] : i \in DOMAIN s}
Collects(s) == \E i \in DOMAIN s : s[i].op = "collect"

\* The calls made by the collection under way, and the others.
Above(s) == {s[i] : i \in {k \in DOMAIN s : \E j \in DOMAIN s : k < j /\ s[j].op = "collect"}}
Below(s) == {s[i] : i \in {k \in DOMAIN s : \A j \in DOMAIN s : k < j => s[j].op # "collect"}}

HoldsIn(s, n) == Cardinality({i \in DOMAIN s : s[i].obj = n /\ s[i].op # "del"})

\* Which calls make which.
Shape(s) ==
  \A i \in DOMAIN s :
    /\ s[i].op = "del" => i = 1
    /\ s[i].op = "dtor" => i + 1 \in DOMAIN s /\ s[i + 1].obj = s[i].obj
                             /\ s[i + 1].op \in {"undtor", "gcdtor"}
    /\ s[i].op = "undtor" /\ i # 1 => s[i - 1].obj = s[i].obj /\ s[i - 1].op \in {"dtor", "full"}
    /\ s[i].op = "gcdtor" => i + 1 \in DOMAIN s /\ s[i + 1].op = "collect"
    /\ s[i].op = "free" => \A j \in DOMAIN s : s[j].obj = s[i].obj => j = i
    /\ s[i].op = "collect" => \A j \in DOMAIN s : s[j].op = "collect" => j = i

LEMMA Pushed ==
  ASSUME NEW R, NEW s \in Seq(R), NEW c \in R, NEW t, t = <<c>> \o s
  PROVE  /\ t \in Seq(R) /\ t # <<>> /\ Len(t) = Len(s) + 1 /\ t[1] = c /\ Tail(t) = s
         /\ DOMAIN t = 1 .. Len(s) + 1 /\ DOMAIN s = 1 .. Len(s) /\ Len(s) \in Nat
         /\ \A i \in DOMAIN s : t[i + 1] = s[i] /\ i + 1 \in DOMAIN t
         /\ \A i \in DOMAIN t : i # 1 => t[i] = s[i - 1] /\ i - 1 \in DOMAIN s
<1>1. t \in Seq(R) /\ t # <<>> /\ Len(t) = Len(s) + 1 /\ t[1] = c OBVIOUS
<1>2. DOMAIN t = 1 .. Len(s) + 1 /\ DOMAIN s = 1 .. Len(s) /\ Len(s) \in Nat BY <1>1
<1>3. \A i \in 1 .. Len(s) : t[i + 1] = s[i] OBVIOUS
<1>4. \A i \in 1 .. Len(s) + 1 : i # 1 => t[i] = s[i - 1] /\ i - 1 \in 1 .. Len(s)
  <2> SUFFICES ASSUME NEW i \in 1 .. Len(s) + 1, i # 1 PROVE t[i] = s[i - 1] /\ i - 1 \in 1 .. Len(s) OBVIOUS
  <2>1. i - 1 \in 1 .. Len(s) /\ (i - 1) + 1 = i BY <1>2
  <2> QED BY <2>1, <1>3
<1>5. Tail(t) = s
  <2>1. Tail(t) \in Seq(R) /\ Len(Tail(t)) = Len(s) /\ \A i \in 1 .. Len(s) : Tail(t)[i] = t[i + 1] BY <1>1
  <2>2. \A i \in 1 .. Len(s) : Tail(t)[i] = s[i] BY <2>1, <1>3
  <2> QED BY <2>1, <2>2
<1>6. \A i \in 1 .. Len(s) : i + 1 \in 1 .. Len(s) + 1 BY <1>2
<1> QED BY <1>1, <1>2, <1>3, <1>4, <1>5, <1>6

LEMMA Popped ==
  ASSUME NEW R, NEW s \in Seq(R), s # <<>>
  PROVE  s = <<s[1]>> \o Tail(s) /\ Tail(s) \in Seq(R) /\ s[1] \in R
<1>1. Tail(s) \in Seq(R) /\ s[1] \in R /\ Len(s) \in Nat \ {0} /\ Len(Tail(s)) = Len(s) - 1 OBVIOUS
<1> DEFINE t == <<s[1]>> \o Tail(s)
<1>2. t \in Seq(R) /\ Len(t) = Len(s) BY <1>1
<1>3. \A i \in 1 .. Len(s) : t[i] = s[i]
  <2> SUFFICES ASSUME NEW i \in 1 .. Len(s) PROVE t[i] = s[i] OBVIOUS
  <2>1. CASE i = 1 BY <2>1, <1>1
  <2>2. CASE i # 1
    <3>1. i - 1 \in 1 .. Len(Tail(s)) BY <2>2, <1>1
    <3>2. t[i] = Tail(s)[i - 1] BY <3>1, <1>1
    <3>3. Tail(s)[i - 1] = s[(i - 1) + 1] BY <3>1, <1>1
    <3> QED BY <3>2, <3>3
  <2> QED BY <2>1, <2>2
<1>4. t = s BY <1>2, <1>3
<1> QED BY <1>1, <1>4

\* t is s with the call c before it.
IsPush(t, c, s) ==
  /\ Len(s) \in Nat /\ DOMAIN t = 1 .. Len(s) + 1 /\ DOMAIN s = 1 .. Len(s) /\ t[1] = c
  /\ s = <<>> <=> Len(s) = 0
  /\ \A i \in DOMAIN s : t[i + 1] = s[i] /\ i + 1 \in DOMAIN t
  /\ \A i \in DOMAIN t : i # 1 => t[i] = s[i - 1] /\ i - 1 \in DOMAIN s

LEMMA PushedIsPush ==
  ASSUME NEW R, NEW s \in Seq(R), NEW c \in R
  PROVE  IsPush(<<c>> \o s, c, s)
<1> DEFINE t == <<c>> \o s
<1>1. s = <<>> <=> Len(s) = 0 OBVIOUS
<1>2. /\ Len(s) \in Nat /\ DOMAIN t = 1 .. Len(s) + 1 /\ DOMAIN s = 1 .. Len(s) /\ t[1] = c
      /\ \A i \in DOMAIN s : t[i + 1] = s[i] /\ i + 1 \in DOMAIN t
      /\ \A i \in DOMAIN t : i # 1 => t[i] = s[i - 1] /\ i - 1 \in DOMAIN s
  <2>1. t = <<c>> \o s OBVIOUS
  <2> HIDE DEF t
  <2> QED BY <2>1, Pushed
<1> HIDE DEF t
<1>3. IsPush(t, c, s) BY <1>1, <1>2 DEF IsPush
<1> QED BY <1>3 DEF t

LEMMA PushedTwo ==
  ASSUME NEW R, NEW s \in Seq(R), NEW c \in R, NEW d \in R
  PROVE  <<c, d>> \o s = <<c>> \o (<<d>> \o s) /\ <<d>> \o s \in Seq(R)
<1> DEFINE u == <<c, d>> \o s  v == <<d>> \o s  w == <<c>> \o v
<1>1. v \in Seq(R) /\ Len(v) = Len(s) + 1 /\ v[1] = d /\ \A i \in 1 .. Len(s) : v[i + 1] = s[i] OBVIOUS
<1>2. w \in Seq(R) /\ Len(w) = Len(v) + 1 /\ w[1] = c /\ \A i \in 1 .. Len(v) : w[i + 1] = v[i]
  <2> HIDE DEF v
  <2> QED BY <1>1
<1>3. u \in Seq(R) /\ Len(u) = Len(s) + 2 /\ u[1] = c /\ u[2] = d /\ \A i \in 1 .. Len(s) : u[i + 2] = s[i] OBVIOUS
<1>4. Len(s) \in Nat OBVIOUS
<1> HIDE DEF u, v, w
<1>5. ASSUME NEW i \in 1 .. Len(u) PROVE u[i] = w[i]
  <2>1. CASE i = 1 BY <2>1, <1>2, <1>3
  <2>2. CASE i = 2
    <3>1. 1 \in 1 .. Len(v) /\ 1 + 1 = 2 BY <1>1, <1>4
    <3>2. w[2] = v[1] BY <3>1, <1>2
    <3> QED BY <2>2, <3>2, <1>1, <1>3
  <2>3. CASE i > 2
    <3>1. i - 2 \in 1 .. Len(s) /\ i - 1 \in 1 .. Len(v) /\ (i - 2) + 2 = i /\ (i - 1) + 1 = i /\ (i - 2) + 1 = i - 1
      BY <2>3, <1>1, <1>3, <1>4
    <3>2. u[i] = s[i - 2] BY <3>1, <1>3
    <3>3. w[i] = v[i - 1] BY <3>1, <1>2
    <3>4. v[i - 1] = s[i - 2] BY <3>1, <1>1
    <3> QED BY <3>2, <3>3, <3>4
  <2> QED BY <2>1, <2>2, <2>3, <1>3, <1>4
<1>6. u = w BY SMTT(30), <1>1, <1>2, <1>3, <1>4, <1>5
<1> QED BY <1>6, <1>1 DEF u, v, w

LEMMA PushedSets ==
  ASSUME NEW R, NEW s \in Seq(R), NEW c \in R, NEW t, t = <<c>> \o s
  PROVE  /\ CallSet(t) = CallSet(s) \cup {c}
         /\ (Collects(t) <=> c.op = "collect" \/ Collects(s))
         /\ Above(t) = IF Collects(s) THEN Above(s) \cup {c} ELSE {}
         /\ Below(t) = IF Collects(s) THEN Below(s) ELSE CallSet(t)
<1>1. /\ Len(s) \in Nat /\ DOMAIN t = 1 .. Len(s) + 1 /\ DOMAIN s = 1 .. Len(s) /\ t[1] = c
      /\ \A i \in DOMAIN s : t[i + 1] = s[i] /\ i + 1 \in DOMAIN t
      /\ \A i \in DOMAIN t : i # 1 => t[i] = s[i - 1] /\ i - 1 \in DOMAIN s
  BY Pushed
<1>2. 1 \in DOMAIN t BY <1>1
<1>3. CallSet(t) = CallSet(s) \cup {c}
  <2>1. \A x \in CallSet(t) : x \in CallSet(s) \cup {c} BY <1>1 DEF CallSet
  <2>2. ASSUME NEW x \in CallSet(s) PROVE x \in CallSet(t)
    <3>1. PICK i \in DOMAIN s : x = s[i] BY DEF CallSet
    <3>2. i + 1 \in DOMAIN t /\ x = t[i + 1] BY <3>1, <1>1
    <3> QED BY <3>2 DEF CallSet
  <2>3. c \in CallSet(t) BY <1>1, <1>2 DEF CallSet
  <2> QED BY <2>1, <2>2, <2>3
<1>4. Collects(t) <=> c.op = "collect" \/ Collects(s)
  <2>1. Collects(t) => c.op = "collect" \/ Collects(s) BY <1>1 DEF Collects
  <2>2. Collects(s) => Collects(t) BY <1>1 DEF Collects
  <2>3. c.op = "collect" => Collects(t) BY <1>1, <1>2 DEF Collects
  <2> QED BY <2>1, <2>2, <2>3
<1>5. (\E j \in DOMAIN t : 1 < j /\ t[j].op = "collect") <=> Collects(s)
  <2>1. ASSUME NEW j \in DOMAIN t, 1 < j, t[j].op = "collect" PROVE Collects(s)
    <3>1. j # 1 BY <2>1, <1>1
    <3>2. s[j - 1].op = "collect" /\ j - 1 \in DOMAIN s BY <3>1, <2>1, <1>1
    <3> QED BY <3>2 DEF Collects
  <2>2. ASSUME Collects(s) PROVE \E j \in DOMAIN t : 1 < j /\ t[j].op = "collect"
    <3>1. PICK i \in DOMAIN s : s[i].op = "collect" BY <2>2 DEF Collects
    <3>2. i + 1 \in DOMAIN t /\ 1 < i + 1 /\ t[i + 1].op = "collect" BY <3>1, <1>1
    <3> QED BY <3>2
  <2> QED BY <2>1, <2>2
<1>6. \A k \in DOMAIN s : (\E j \in DOMAIN t : k + 1 < j /\ t[j].op = "collect")
                            <=> (\E j \in DOMAIN s : k < j /\ s[j].op = "collect")
  <2> SUFFICES ASSUME NEW k \in DOMAIN s
               PROVE  (\E j \in DOMAIN t : k + 1 < j /\ t[j].op = "collect")
                        <=> (\E j \in DOMAIN s : k < j /\ s[j].op = "collect")
    OBVIOUS
  <2>1. ASSUME NEW j \in DOMAIN t, k + 1 < j, t[j].op = "collect" PROVE \E i \in DOMAIN s : k < i /\ s[i].op = "collect"
    <3>1. j # 1 BY <2>1, <1>1
    <3>2. s[j - 1].op = "collect" /\ j - 1 \in DOMAIN s /\ k < j - 1 BY <3>1, <2>1, <1>1
    <3> QED BY <3>2
  <2>2. ASSUME NEW j \in DOMAIN s, k < j, s[j].op = "collect" PROVE \E i \in DOMAIN t : k + 1 < i /\ t[i].op = "collect"
    <3>1. j + 1 \in DOMAIN t /\ k + 1 < j + 1 /\ t[j + 1].op = "collect" BY <2>2, <1>1
    <3> QED BY <3>1
  <2> QED BY <2>1, <2>2
<1> DEFINE Up(k) == \E j \in DOMAIN t : k < j /\ t[j].op = "collect"
           Us(k) == \E j \in DOMAIN s : k < j /\ s[j].op = "collect"
<1>7. (Up(1) <=> Collects(s)) /\ \A k \in DOMAIN s : Up(k + 1) <=> Us(k) BY <1>5, <1>6
<1>8. Above(t) = {t[i] : i \in {k \in DOMAIN t : Up(k)}} /\ Above(s) = {s[i] : i \in {k \in DOMAIN s : Us(k)}}
  BY DEF Above
<1>9. Below(t) = {t[i] : i \in {k \in DOMAIN t : ~Up(k)}} /\ Below(s) = {s[i] : i \in {k \in DOMAIN s : ~Us(k)}}
  BY DEF Below
<1>10. ~Collects(s) => \A k \in DOMAIN s : ~Us(k) BY DEF Collects
<1> HIDE DEF Up, Us
<1>11. \A k \in DOMAIN t : k # 1 => (k - 1 \in DOMAIN s /\ t[k] = s[k - 1] /\ (Up(k) <=> Us(k - 1)))
  <2> SUFFICES ASSUME NEW k \in DOMAIN t, k # 1 PROVE k - 1 \in DOMAIN s /\ t[k] = s[k - 1] /\ (Up(k) <=> Us(k - 1))
    OBVIOUS
  <2>1. k - 1 \in DOMAIN s /\ t[k] = s[k - 1] BY <1>1
  <2>2. (k - 1) + 1 = k BY <1>1
  <2>3. Up((k - 1) + 1) <=> Us(k - 1) BY <2>1, <1>7
  <2> QED BY <2>1, <2>2, <2>3
<1>12. Above(t) = IF Collects(s) THEN Above(s) \cup {c} ELSE {}
  <2>1. CASE ~Collects(s)
    <3>1. \A k \in DOMAIN t : ~Up(k) BY <2>1, <1>7, <1>10, <1>11
    <3> QED BY <3>1, <2>1, <1>8
  <2>2. CASE Collects(s)
    <3>1. ASSUME NEW x \in Above(t) PROVE x \in Above(s) \cup {c}
      <4>1. PICK k \in DOMAIN t : Up(k) /\ x = t[k] BY <1>8
      <4>2. CASE k = 1 BY <4>1, <4>2, <1>1
      <4>3. CASE k # 1
        <5>1. k - 1 \in DOMAIN s /\ x = s[k - 1] /\ Us(k - 1) BY <4>1, <4>3, <1>11
        <5> QED BY <5>1, <1>8
      <4> QED BY <4>2, <4>3
    <3>2. \A x \in Above(s) : x \in Above(t) BY <1>8, <1>7, <1>1
    <3>3. c \in Above(t) BY <1>8, <1>7, <1>1, <1>2, <2>2
    <3> QED BY <3>1, <3>2, <3>3, <2>2
  <2> QED BY <2>1, <2>2
<1>13. Below(t) = IF Collects(s) THEN Below(s) ELSE CallSet(t)
  <2>1. CASE ~Collects(s)
    <3>1. \A k \in DOMAIN t : ~Up(k) BY <2>1, <1>7, <1>10, <1>11
    <3> QED BY <3>1, <2>1, <1>9 DEF CallSet
  <2>2. CASE Collects(s)
    <3>1. ASSUME NEW x \in Below(t) PROVE x \in Below(s)
      <4>1. PICK k \in DOMAIN t : ~Up(k) /\ x = t[k] BY <1>9
      <4>2. k # 1 BY <4>1, <1>7, <2>2
      <4>3. k - 1 \in DOMAIN s /\ x = s[k - 1] /\ ~Us(k - 1) BY <4>1, <4>2, <1>11
      <4> QED BY <4>3, <1>9
    <3>2. \A x \in Below(s) : x \in Below(t) BY <1>9, <1>7, <1>1
    <3> QED BY <3>1, <3>2, <2>2
  <2> QED BY <2>1, <2>2
<1> QED BY <1>3, <1>4, <1>12, <1>13

\* How many calls hold an object.
LEMMA PushedHolds ==
  ASSUME NEW t, NEW c, NEW s, IsPush(t, c, s), NEW n
  PROVE  /\ HoldsIn(s, n) \in Nat
         /\ HoldsIn(t, n) = HoldsIn(s, n) + (IF c.obj = n /\ c.op # "del" THEN 1 ELSE 0)
<1>1. /\ Len(s) \in Nat /\ DOMAIN t = 1 .. Len(s) + 1 /\ DOMAIN s = 1 .. Len(s) /\ t[1] = c
      /\ \A i \in DOMAIN s : t[i + 1] = s[i] /\ i + 1 \in DOMAIN t
      /\ \A i \in DOMAIN t : i # 1 => t[i] = s[i - 1] /\ i - 1 \in DOMAIN s
  BY DEF IsPush
<1> DEFINE A == {i \in DOMAIN s : s[i].obj = n /\ s[i].op # "del"}
           B == {i \in DOMAIN t : t[i].obj = n /\ t[i].op # "del"}
           f == [i \in A |-> i + 1]
<1>2. IsFiniteSet(A) /\ Cardinality(A) \in Nat
  <2>1. IsFiniteSet(1 .. Len(s)) BY <1>1, FS_Interval
  <2>2. A \in SUBSET (1 .. Len(s)) BY <1>1
  <2> QED BY <2>1, <2>2, FS_Subset, FS_CardinalityType
<1>3. B \ {1} = {i + 1 : i \in A}
  <2>1. ASSUME NEW i \in B \ {1} PROVE i \in {j + 1 : j \in A}
    <3>1. i - 1 \in A /\ i = (i - 1) + 1 BY <2>1, <1>1
    <3> QED BY <3>1
  <2>2. ASSUME NEW i \in A PROVE i + 1 \in B \ {1} BY <1>1
  <2> QED BY <2>1, <2>2
<1>4. f \in Bijection(A, B \ {1})
  <2>1. \A i \in A : i \in Nat BY <1>1
  <2>2. f \in [A -> B \ {1}] BY <1>3
  <2>3. \A i, j \in A : f[i] = f[j] => i = j BY <2>1
  <2>4. \A k \in B \ {1} : \E i \in A : f[i] = k BY <1>3
  <2> QED BY <2>2, <2>3, <2>4 DEF Bijection, Injection, Surjection, IsInjective
<1>5. IsFiniteSet(B \ {1}) /\ Cardinality(B \ {1}) = Cardinality(A)
  <2>1. ExistsBijection(A, B \ {1}) BY <1>4 DEF ExistsBijection
  <2> HIDE DEF A, B
  <2> QED BY <2>1, <1>2, FS_Bijection
<1>6. HoldsIn(s, n) = Cardinality(A) /\ HoldsIn(t, n) = Cardinality(B) BY DEF HoldsIn
<1>7. CASE c.obj = n /\ c.op # "del"
  <2>1. 1 \in B BY <1>7, <1>1
  <2>2. B = (B \ {1}) \cup {1} /\ 1 \notin B \ {1} BY <2>1
  <2> HIDE DEF A, B
  <2>3. Cardinality((B \ {1}) \cup {1}) = Cardinality(B \ {1}) + 1 BY <1>5, <2>2, FS_AddElement
  <2> QED BY <2>2, <2>3, <1>5, <1>6, <1>2, <1>7
<1>8. CASE ~(c.obj = n /\ c.op # "del")
  <2>1. 1 \notin B BY <1>8, <1>1
  <2>2. B = B \ {1} BY <2>1
  <2> HIDE DEF A, B
  <2>3. HoldsIn(t, n) = HoldsIn(s, n) /\ HoldsIn(s, n) \in Nat BY <2>2, <1>5, <1>6, <1>2
  <2> QED BY <2>3, <1>8
<1> QED BY <1>7, <1>8, <1>6, <1>2

LEMMA HeldOnce ==
  ASSUME NEW R, NEW s \in Seq(R), NEW n
  PROVE  /\ HoldsIn(s, n) \in Nat
         /\ (HoldsIn(s, n) = 0) <=> (\A c \in CallSet(s) : c.obj = n => c.op = "del")
<1> DEFINE A == {i \in DOMAIN s : s[i].obj = n /\ s[i].op # "del"}
<1>1. IsFiniteSet(A)
  <2>1. Len(s) \in Nat /\ DOMAIN s = 1 .. Len(s) OBVIOUS
  <2>2. IsFiniteSet(1 .. Len(s)) BY <2>1, FS_Interval
  <2>3. A \in SUBSET (1 .. Len(s)) BY <2>1
  <2> QED BY <2>2, <2>3, FS_Subset
<1>2. HoldsIn(s, n) = Cardinality(A) BY DEF HoldsIn
<1>3. A = {} <=> \A c \in CallSet(s) : c.obj = n => c.op = "del" BY DEF CallSet
<1> HIDE DEF A
<1>4. Cardinality(A) \in Nat /\ (Cardinality(A) = 0 <=> A = {}) BY <1>1, FS_CardinalityType, FS_EmptySet
<1> QED BY <1>2, <1>3, <1>4

\* What may be called from where.
MayPush(c, s) ==
  /\ s # <<>> => s[1].op # "del"
  /\ c.op = "dtor" => s # <<>> /\ s[1].obj = c.obj /\ s[1].op \in {"undtor", "gcdtor"}
  /\ s # <<>> /\ s[1].op = "undtor" => c.obj = s[1].obj /\ c.op \in {"dtor", "full"}
  /\ \A d \in CallSet(s) : c.op = "free" \/ d.op = "free" => d.obj # c.obj
  /\ c.op = "gcdtor" => s # <<>> /\ s[1].op = "collect"
  /\ c.op = "collect" => ~Collects(s)

LEMMA PushedShape ==
  ASSUME NEW c, NEW s, NEW t, IsPush(t, c, s), Shape(s), MayPush(c, s)
  PROVE  Shape(t)
<1>1. /\ Len(s) \in Nat /\ DOMAIN t = 1 .. Len(s) + 1 /\ DOMAIN s = 1 .. Len(s) /\ t[1] = c
      /\ \A i \in DOMAIN s : t[i + 1] = s[i] /\ i + 1 \in DOMAIN t
      /\ \A i \in DOMAIN t : i # 1 => t[i] = s[i - 1] /\ i - 1 \in DOMAIN s
  BY DEF IsPush
<1>2. s # <<>> <=> 1 \in DOMAIN s BY <1>1 DEF IsPush
<1>3. \A j \in DOMAIN s : s[j] \in CallSet(s) BY DEF CallSet
<1>4. 2 \in DOMAIN t => t[2] = s[1] /\ s # <<>> BY <1>1, <1>2
<1> SUFFICES ASSUME NEW i \in DOMAIN t
             PROVE  /\ t[i].op = "del" => i = 1
                    /\ t[i].op = "dtor" => i + 1 \in DOMAIN t /\ t[i + 1].obj = t[i].obj
                                             /\ t[i + 1].op \in {"undtor", "gcdtor"}
                    /\ t[i].op = "undtor" /\ i # 1 => t[i - 1].obj = t[i].obj /\ t[i - 1].op \in {"dtor", "full"}
                    /\ t[i].op = "gcdtor" => i + 1 \in DOMAIN t /\ t[i + 1].op = "collect"
                    /\ t[i].op = "free" => \A j \in DOMAIN t : t[j].obj = t[i].obj => j = i
                    /\ t[i].op = "collect" => \A j \in DOMAIN t : t[j].op = "collect" => j = i
  BY DEF Shape
<1>5. CASE i = 1
  <2>1. t[i].op = "dtor" => i + 1 \in DOMAIN t /\ t[i + 1].obj = t[i].obj /\ t[i + 1].op \in {"undtor", "gcdtor"}
    BY <1>5, <1>1, <1>2 DEF MayPush
  <2>2. t[i].op = "free" => \A j \in DOMAIN t : t[j].obj = t[i].obj => j = i
    BY <1>5, <1>1, <1>3 DEF MayPush
  <2>3. t[i].op = "collect" => \A j \in DOMAIN t : t[j].op = "collect" => j = i
    BY <1>5, <1>1 DEF MayPush, Collects
  <2>4. t[i].op = "gcdtor" => i + 1 \in DOMAIN t /\ t[i + 1].op = "collect" BY <1>5, <1>1, <1>2 DEF MayPush
  <2> QED BY <2>1, <2>2, <2>3, <2>4, <1>5
<1>6. CASE i # 1
  <2>1. i - 1 \in DOMAIN s /\ t[i] = s[i - 1] /\ (i - 1) + 1 = i /\ i \in Nat BY <1>6, <1>1
  <2>2. t[i].op # "del"
    <3>1. CASE i - 1 = 1 BY <3>1, <2>1, <1>2 DEF MayPush
    <3>2. CASE i - 1 # 1 BY <3>2, <2>1 DEF Shape
    <3> QED BY <3>1, <3>2
  <2>3. t[i].op = "dtor" => i + 1 \in DOMAIN t /\ t[i + 1].obj = t[i].obj /\ t[i + 1].op \in {"undtor", "gcdtor"}
    <3> SUFFICES ASSUME s[i - 1].op = "dtor"
                 PROVE  i + 1 \in DOMAIN t /\ t[i + 1].obj = t[i].obj /\ t[i + 1].op \in {"undtor", "gcdtor"}
      BY <2>1
    <3>1. (i - 1) + 1 \in DOMAIN s /\ s[(i - 1) + 1].obj = s[i - 1].obj /\ s[(i - 1) + 1].op \in {"undtor", "gcdtor"}
      BY <2>1 DEF Shape
    <3>2. i \in DOMAIN s /\ s[i].obj = s[i - 1].obj /\ s[i].op \in {"undtor", "gcdtor"} BY <3>1, <2>1
    <3> QED BY <3>2, <1>1, <2>1
  <2>4. t[i].op = "undtor" => t[i - 1].obj = t[i].obj /\ t[i - 1].op \in {"dtor", "full"}
    <3> SUFFICES ASSUME s[i - 1].op = "undtor" PROVE t[i - 1].obj = t[i].obj /\ t[i - 1].op \in {"dtor", "full"}
      BY <2>1
    <3>1. CASE i - 1 = 1
      <4>1. s[1].op = "undtor" /\ s # <<>> /\ t[i] = s[1] /\ t[i - 1] = c BY <3>1, <2>1, <1>1, <1>2
      <4> QED BY <4>1 DEF MayPush
    <3>2. CASE i - 1 # 1
      <4>1. s[(i - 1) - 1].obj = s[i - 1].obj /\ s[(i - 1) - 1].op \in {"dtor", "full"} BY <3>2, <2>1 DEF Shape
      <4>2. i - 1 \in DOMAIN t /\ i - 1 # 1 BY <3>2, <2>1, <1>1
      <4>3. t[i - 1] = s[(i - 1) - 1] BY <4>2, <1>1
      <4> QED BY <4>1, <4>3, <2>1
    <3> QED BY <3>1, <3>2
  <2>5. t[i].op = "free" => \A j \in DOMAIN t : t[j].obj = t[i].obj => j = i
    <3> SUFFICES ASSUME s[i - 1].op = "free", NEW j \in DOMAIN t, t[j].obj = s[i - 1].obj PROVE j = i
      BY <2>1
    <3>1. s[i - 1] \in CallSet(s) BY <2>1, <1>3
    <3>2. j # 1 BY <3>1, <1>1 DEF MayPush
    <3>3. j - 1 \in DOMAIN s /\ t[j] = s[j - 1] /\ j \in Nat BY <3>2, <1>1
    <3>4. j - 1 = i - 1 BY <3>3, <2>1 DEF Shape
    <3> QED BY <3>4, <3>3, <2>1
  <2>6. t[i].op = "collect" => \A j \in DOMAIN t : t[j].op = "collect" => j = i
    <3> SUFFICES ASSUME s[i - 1].op = "collect", NEW j \in DOMAIN t, t[j].op = "collect" PROVE j = i
      BY <2>1
    <3>1. Collects(s) BY <2>1 DEF Collects
    <3>2. j # 1 BY <3>1, <1>1 DEF MayPush
    <3>3. j - 1 \in DOMAIN s /\ t[j] = s[j - 1] /\ j \in Nat BY <3>2, <1>1
    <3>4. j - 1 = i - 1 BY <3>3, <2>1 DEF Shape
    <3> QED BY <3>4, <3>3, <2>1
  <2>7. t[i].op = "gcdtor" => i + 1 \in DOMAIN t /\ t[i + 1].op = "collect"
    <3> SUFFICES ASSUME s[i - 1].op = "gcdtor" PROVE i + 1 \in DOMAIN t /\ t[i + 1].op = "collect"
      BY <2>1
    <3>1. (i - 1) + 1 \in DOMAIN s /\ s[(i - 1) + 1].op = "collect" BY <2>1 DEF Shape
    <3>2. i \in DOMAIN s /\ s[i].op = "collect" BY <3>1, <2>1
    <3> QED BY <3>2, <1>1, <2>1
  <2> QED BY <2>2, <2>3, <2>4, <2>5, <2>6, <2>7, <1>6
<1> QED BY <1>5, <1>6

LEMMA PoppedShape ==
  ASSUME NEW c, NEW s, NEW t, IsPush(t, c, s), Shape(t)
  PROVE  Shape(s) /\ MayPush(c, s)
<1>1. /\ Len(s) \in Nat /\ DOMAIN t = 1 .. Len(s) + 1 /\ DOMAIN s = 1 .. Len(s) /\ t[1] = c
      /\ \A i \in DOMAIN s : t[i + 1] = s[i] /\ i + 1 \in DOMAIN t
      /\ \A i \in DOMAIN t : i # 1 => t[i] = s[i - 1] /\ i - 1 \in DOMAIN s
  BY DEF IsPush
<1>2. s # <<>> <=> 1 \in DOMAIN s BY <1>1 DEF IsPush
<1>3. 1 \in DOMAIN t BY <1>1
<1>4. s # <<>> => 2 \in DOMAIN t /\ t[2] = s[1] BY <1>1, <1>2
<1>5. MayPush(c, s)
  <2>1. s # <<>> => s[1].op # "del" BY SMTT(30), <1>4 DEF Shape
  <2>2. c.op = "dtor" => s # <<>> /\ s[1].obj = c.obj /\ s[1].op \in {"undtor", "gcdtor"}
    <3> SUFFICES ASSUME c.op = "dtor" PROVE s # <<>> /\ s[1].obj = c.obj /\ s[1].op \in {"undtor", "gcdtor"}
      OBVIOUS
    <3>1. 1 + 1 \in DOMAIN t /\ t[1 + 1].obj = c.obj /\ t[1 + 1].op \in {"undtor", "gcdtor"} BY <1>1, <1>3 DEF Shape
    <3>2. s # <<>> BY <3>1, <1>1
    <3> QED BY <3>1, <3>2, <1>4
  <2>3. s # <<>> /\ s[1].op = "undtor" => c.obj = s[1].obj /\ c.op \in {"dtor", "full"}
    <3> SUFFICES ASSUME s # <<>>, s[1].op = "undtor" PROVE c.obj = s[1].obj /\ c.op \in {"dtor", "full"} OBVIOUS
    <3>1. t[2].op = "undtor" /\ 2 \in DOMAIN t BY <1>4
    <3>3. \A i \in DOMAIN t : t[i].op = "undtor" /\ i # 1 => t[i - 1].obj = t[i].obj /\ t[i - 1].op \in {"dtor", "full"}
      BY DEF Shape
    <3>4. 2 # 1 OBVIOUS
    <3>2. t[2 - 1].obj = t[2].obj /\ t[2 - 1].op \in {"dtor", "full"} BY <3>1, <3>3, <3>4
    <3> QED BY <3>2, <1>1, <1>4
  <2>4. ASSUME NEW d \in CallSet(s), c.op = "free" \/ d.op = "free" PROVE d.obj # c.obj
    <3>1. PICK i \in DOMAIN s : d = s[i] BY DEF CallSet
    <3>2. i + 1 \in DOMAIN t /\ t[i + 1] = d /\ i + 1 # 1 BY <3>1, <1>1
    <3> QED BY <3>2, <2>4, <1>1, <1>3 DEF Shape
  <2>5. c.op = "collect" => ~Collects(s)
    <3> SUFFICES ASSUME c.op = "collect", NEW i \in DOMAIN s, s[i].op = "collect" PROVE FALSE BY DEF Collects
    <3>1. i + 1 \in DOMAIN t /\ t[i + 1] = s[i] /\ i + 1 # 1 BY <1>1
    <3> QED BY <3>1, <1>1, <1>3 DEF Shape
  <2>6. c.op = "gcdtor" => s # <<>> /\ s[1].op = "collect"
    <3> SUFFICES ASSUME c.op = "gcdtor" PROVE s # <<>> /\ s[1].op = "collect" OBVIOUS
    <3>1. 1 + 1 \in DOMAIN t /\ t[1 + 1].op = "collect" BY <1>1, <1>3 DEF Shape
    <3>2. s # <<>> BY <3>1, <1>1
    <3> QED BY <3>1, <3>2, <1>4
  <2> QED BY <2>1, <2>2, <2>3, <2>4, <2>5, <2>6 DEF MayPush
<1>6. Shape(s)
  <2> SUFFICES ASSUME NEW i \in DOMAIN s
               PROVE  /\ s[i].op = "del" => i = 1
                      /\ s[i].op = "dtor" => i + 1 \in DOMAIN s /\ s[i + 1].obj = s[i].obj
                                               /\ s[i + 1].op \in {"undtor", "gcdtor"}
                      /\ s[i].op = "undtor" /\ i # 1 => s[i - 1].obj = s[i].obj /\ s[i - 1].op \in {"dtor", "full"}
                      /\ s[i].op = "gcdtor" => i + 1 \in DOMAIN s /\ s[i + 1].op = "collect"
                      /\ s[i].op = "free" => \A j \in DOMAIN s : s[j].obj = s[i].obj => j = i
                      /\ s[i].op = "collect" => \A j \in DOMAIN s : s[j].op = "collect" => j = i
    BY DEF Shape
  <2>1. i + 1 \in DOMAIN t /\ t[i + 1] = s[i] /\ i + 1 # 1 /\ i \in Nat /\ (i + 1) - 1 = i BY <1>1
  <2>2. s[i].op # "del" BY <2>1 DEF Shape
  <2>3. s[i].op = "dtor" => i + 1 \in DOMAIN s /\ s[i + 1].obj = s[i].obj /\ s[i + 1].op \in {"undtor", "gcdtor"}
    <3> SUFFICES ASSUME s[i].op = "dtor"
                 PROVE  i + 1 \in DOMAIN s /\ s[i + 1].obj = s[i].obj /\ s[i + 1].op \in {"undtor", "gcdtor"}
      OBVIOUS
    <3>1. (i + 1) + 1 \in DOMAIN t /\ t[(i + 1) + 1].obj = s[i].obj /\ t[(i + 1) + 1].op \in {"undtor", "gcdtor"}
      BY <2>1 DEF Shape
    <3>2. i + 1 \in DOMAIN s BY <3>1, <1>1, <2>1
    <3>3. t[(i + 1) + 1] = s[i + 1] BY <3>2, <1>1
    <3> QED BY <3>1, <3>2, <3>3
  <2>4. s[i].op = "undtor" /\ i # 1 => s[i - 1].obj = s[i].obj /\ s[i - 1].op \in {"dtor", "full"}
    <3> SUFFICES ASSUME s[i].op = "undtor", i # 1 PROVE s[i - 1].obj = s[i].obj /\ s[i - 1].op \in {"dtor", "full"}
      OBVIOUS
    <3>1. t[(i + 1) - 1].obj = s[i].obj /\ t[(i + 1) - 1].op \in {"dtor", "full"} BY <2>1 DEF Shape
    <3>2. i \in DOMAIN t /\ t[i] = s[i - 1] BY <1>1
    <3> QED BY <3>1, <3>2, <2>1
  <2>5. \A j \in DOMAIN s : j + 1 \in DOMAIN t /\ t[j + 1] = s[j] /\ (j + 1 = i + 1 => j = i) BY <1>1, <2>1
  <2>6. s[i].op = "free" => \A j \in DOMAIN s : s[j].obj = s[i].obj => j = i BY <2>1, <2>5 DEF Shape
  <2>7. s[i].op = "collect" => \A j \in DOMAIN s : s[j].op = "collect" => j = i BY <2>1, <2>5 DEF Shape
  <2>8. s[i].op = "gcdtor" => i + 1 \in DOMAIN s /\ s[i + 1].op = "collect"
    <3> SUFFICES ASSUME s[i].op = "gcdtor" PROVE i + 1 \in DOMAIN s /\ s[i + 1].op = "collect" OBVIOUS
    <3>1. (i + 1) + 1 \in DOMAIN t /\ t[(i + 1) + 1].op = "collect" BY <2>1 DEF Shape
    <3>2. i + 1 \in DOMAIN s BY <3>1, <1>1, <2>1
    <3>3. t[(i + 1) + 1] = s[i + 1] BY <3>2, <1>1
    <3> QED BY <3>1, <3>2, <3>3
  <2> QED BY <2>2, <2>3, <2>4, <2>6, <2>7, <2>8
<1> QED BY <1>5, <1>6

-----------------------------------------------------------------------------
(***************************************************************************)
(* The inductive invariant.                                                *)
(***************************************************************************)

In(n) == {e \in prop : e[2] = n}
Total(n) == variables[n] + Cardinality(In(n)) + HoldsIn(calls, n)
Garbage == Tagged("garbage")

\* Objects whose references are out of the counters, during the scan.
Taken == Colored(Object, "grey") \cup Colored(Object, "white") \cup gc.black
Following(S, n) == {m \in S : n \in Visited(m)}

HeapTyped ==
  /\ used \subseteq Object /\ prop \subseteq used \X used
  /\ variables \in [Object -> 0 .. MaxVars] /\ refcount \in [Object -> Int]
  /\ color \in [Object -> {"black", "white", "grey", "purple"}]
  /\ tag \in [Object -> {"none", "root", "garbage", "dtor"}]
  /\ dtor_called \subseteq used /\ free_called \subseteq used /\ nulled \subseteq free_called
  /\ \A n \in Object \ used : variables[n] = 0 /\ refcount[n] = 0 /\ tag[n] = "none"

GCTyped ==
  gc \in [phase : {"idle", "mark", "scan", "collect", "dtors", "destroy"},
          work : SUBSET used, black : SUBSET used, dtors : BOOLEAN, rerun : BOOLEAN,
          did_rerun : BOOLEAN]

\* A call and the object it is about.
CallFits(c) ==
  /\ c.obj \in used \cup {"none"} /\ (c.obj = "none" <=> c.op = "collect")
  /\ c.op = "del" => refcount[c.obj] = 0
  /\ c.op = "undtor" => c.obj \in dtor_called
  /\ c.op = "free" => /\ c.obj \in free_called /\ c.obj \notin nulled /\ variables[c.obj] = 0
                      /\ \A m \in used : <<m, c.obj>> \notin prop
  /\ c.op = "gcfree" => c.obj \in nulled
  /\ c.op = "gcdtor" => tag[c.obj] = "root"

\* An object that was resurrected is in the buffer when its deletion goes on.
Stacked ==
  /\ calls \in Seq(CallRec) /\ Shape(calls)
  /\ \A c \in CallSet(calls) : CallFits(c)
  /\ Top("undtor") => tag[calls[1].obj] # "none"

\* The counters; while the collector scans, without what it has taken out.
Exact ==
  \A n \in used :
    refcount[n] = IF gc.phase = "scan" THEN Total(n) - Cardinality(Following(Taken, n)) ELSE Total(n)

\* What the phase of the collector says of tags, colors and calls.
Phased ==
  /\ gc.phase = "idle" <=> ~Collects(calls)
  /\ gc.phase \in {"mark", "scan", "collect"} => Top("collect")
  /\ Garbage # {} => gc.phase \in {"collect", "dtors", "destroy"}
  /\ Tagged("dtor") # {} => gc.phase = "dtors"
  /\ nulled # {} => gc.phase = "destroy"
  /\ gc.phase # "scan" => gc.work = {} /\ gc.black = {}
  /\ gc.phase = "dtors" => gc.dtors
  /\ gc.phase = "collect" => gc.dtors = (Garbage \cap (HasDtor \ dtor_called) # {})
  /\ gc.phase \in {"dtors", "destroy"} => (Garbage \cap HasDtor) \subseteq dtor_called
  /\ gc.phase # "scan" =>
       \A n \in Object : color[n] = IF tag[n] \in {"root", "dtor"} THEN "purple" ELSE "black"

\* Garbage is referred to by garbage only, and only the collection holds it.
Isolated ==
  \A n \in Garbage :
    /\ variables[n] = 0 /\ \A m \in used : <<m, n>> \in prop => m \in Garbage
    /\ \A c \in CallSet(calls) : c.obj = n => c.op \in {"del", "free", "gcfree"} /\ c \notin Below(calls)

\* What waits for its destructor is in the hands of none of the other calls.
Waiting ==
  \A n \in Tagged("dtor") : \A c \in Below(calls) : c.obj # n

\* What is being freed is in the hands of a call.
Freed ==
  /\ \A n \in free_called : n \in nulled \/ Call("free", n) \in CallSet(calls)
  /\ \A n \in nulled : /\ tag[n] = "garbage"
                       /\ Succ(n) = {} \/ Call("gcfree", n) \in CallSet(calls)

\* The scan: only what is below the roots is colored; what is white and done
\* has no reference from elsewhere; what is black and done has only black below.
Scanned ==
  gc.phase = "scan" =>
    /\ \A n \in Object : color[n] # "purple" /\ (color[n] # "black" => n \in Reach(Roots))
    /\ gc.work \subseteq Reach(Roots)
    /\ \A n \in gc.black : n \in Reach(Roots) /\ color[n] = "black"
    /\ \A n \in Object : color[n] = "white" /\ n \notin gc.work =>
         refcount[n] = 0 /\ \A m \in Visited(n) : color[m] # "grey"
    /\ \A n \in Reach(Roots) : color[n] = "black" /\ n \notin gc.black =>
         \A m \in Visited(n) : color[m] = "black"

Variables == {n \in Object : variables[n] > 0}
Held      == {c.obj : c \in CallSet(calls)}
Base      == Variables \cup Held \cup UNION {Succ(n) : n \in free_called}
Sources   == Base \cup {n \in Object : tag[n] # "none"}
Outside   == (Variables \cup Held \cup UNION {Succ(n) : n \in free_called \ Garbage}) \ Garbage

\* Nothing is lost; what the scan has made black is needed.
Rooted ==
  /\ used \subseteq Reach(Sources)
  /\ gc.phase = "scan" => \A n \in used : color[n] = "black" => n \in Reach(Base)

\* In a pass without destructors what is not garbage is needed by others.
Quiet ==
  gc.phase = "collect" \/ (gc.phase = "destroy" /\ ~gc.dtors) =>
    /\ used \subseteq Garbage \cup Reach(Outside)
    /\ \A c \in Above(calls) : c.obj \in Garbage

IInv ==
  /\ HeapTyped /\ GCTyped /\ Stacked /\ Exact /\ Phased
  /\ Isolated /\ Waiting /\ Freed /\ Scanned /\ Rooted /\ Quiet

-----------------------------------------------------------------------------
(* References.                                                             *)

LEMMA InSucc ==
  HeapTyped => \A n, m : m \in Succ(n) <=> <<n, m>> \in prop
<1> SUFFICES ASSUME HeapTyped, NEW n, NEW m PROVE m \in Succ(n) <=> <<n, m>> \in prop OBVIOUS
<1>1. prop \subseteq used \X used BY DEF HeapTyped
<1>2. ASSUME m \in Succ(n) PROVE <<n, m>> \in prop
  <2>1. PICK e \in prop : e[1] = n /\ e[2] = m BY <1>2 DEF Succ
  <2>2. e = <<n, m>> BY <1>1, <2>1
  <2> QED BY <2>1, <2>2
<1>3. ASSUME <<n, m>> \in prop PROVE m \in Succ(n)
  <2>1. <<n, m>>[1] = n /\ <<n, m>>[2] = m OBVIOUS
  <2> QED BY <1>3, <2>1 DEF Succ
<1> QED BY <1>2, <1>3

LEMMA InSuccNext ==
  HeapTyped' => (\A n, m : m \in Succ(n) <=> <<n, m>> \in prop)'
BY InSucc, PTL

LEMMA InVisited ==
  HeapTyped => \A n, m : m \in Visited(n) <=> n \notin free_called /\ <<n, m>> \in prop
BY InSucc DEF Visited

LEMMA InVisitedNext ==
  HeapTyped' => (\A n, m : m \in Visited(n) <=> n \notin free_called /\ <<n, m>> \in prop)'
BY InVisited, PTL

LEMMA PropTyped ==
  HeapTyped => \A n, m : <<n, m>> \in prop => n \in used /\ m \in used /\ n \in Object /\ m \in Object
BY DEF HeapTyped

LEMMA PropTypedNext ==
  HeapTyped' => (\A n, m : <<n, m>> \in prop => n \in used /\ m \in used /\ n \in Object /\ m \in Object)'
BY PropTyped, PTL

LEMMA InFinite ==
  HeapTyped => \A n : /\ IsFiniteSet(In(n)) /\ Cardinality(In(n)) \in Nat
                      /\ (Cardinality(In(n)) = 0 <=> \A m : <<m, n>> \notin prop)
<1> SUFFICES ASSUME HeapTyped, NEW n
             PROVE  /\ IsFiniteSet(In(n)) /\ Cardinality(In(n)) \in Nat
                    /\ (Cardinality(In(n)) = 0 <=> \A m : <<m, n>> \notin prop)
  OBVIOUS
<1>1. prop \subseteq used \X used /\ used \subseteq Object BY DEF HeapTyped
<1>2. IsFiniteSet(Object \X Object) BY GCAssumption, FS_Product
<1>3. In(n) \in SUBSET (Object \X Object) BY <1>1 DEF In
<1>4. IsFiniteSet(In(n)) BY <1>2, <1>3, FS_Subset
<1>5. Cardinality(In(n)) \in Nat /\ (Cardinality(In(n)) = 0 <=> In(n) = {}) BY <1>4, FS_CardinalityType, FS_EmptySet
<1>6. In(n) = {} <=> \A m : <<m, n>> \notin prop
  <2>1. ASSUME NEW m, <<m, n>> \in prop PROVE In(n) # {}
    <3>1. <<m, n>>[2] = n OBVIOUS
    <3> QED BY <2>1, <3>1 DEF In
  <2>2. ASSUME NEW e \in In(n) PROVE \E m : <<m, n>> \in prop
    <3>1. e \in prop /\ e[2] = n BY DEF In
    <3>2. e = <<e[1], n>> BY <3>1, <1>1
    <3> QED BY <3>1, <3>2
  <2> QED BY <2>1, <2>2
<1> QED BY <1>4, <1>5, <1>6

LEMMA InFiniteNext ==
  HeapTyped' => (\A n : /\ IsFiniteSet(In(n)) /\ Cardinality(In(n)) \in Nat
                        /\ (Cardinality(In(n)) = 0 <=> \A m : <<m, n>> \notin prop))'
BY InFinite, PTL

LEMMA Totals ==
  HeapTyped /\ Stacked =>
    \A n \in Object :
      /\ Total(n) \in Nat /\ variables[n] \in Nat /\ Cardinality(In(n)) \in Nat /\ HoldsIn(calls, n) \in Nat
      /\ Holds(n) = HoldsIn(calls, n)
<1> SUFFICES ASSUME HeapTyped, Stacked, NEW n \in Object
             PROVE  /\ Total(n) \in Nat /\ variables[n] \in Nat /\ Cardinality(In(n)) \in Nat
                    /\ HoldsIn(calls, n) \in Nat /\ Holds(n) = HoldsIn(calls, n)
  OBVIOUS
<1>1. HoldsIn(calls, n) \in Nat BY HeldOnce DEF Stacked
<1>2. Cardinality(In(n)) \in Nat BY InFinite
<1>3. variables[n] \in Nat BY GCAssumption DEF HeapTyped
<1>4. Holds(n) = HoldsIn(calls, n) BY DEF Holds, HoldsIn
<1> QED BY <1>1, <1>2, <1>3, <1>4 DEF Total

LEMMA TotalsNext ==
  HeapTyped' /\ Stacked' =>
    (\A n \in Object :
      /\ Total(n) \in Nat /\ variables[n] \in Nat /\ Cardinality(In(n)) \in Nat /\ HoldsIn(calls, n) \in Nat
      /\ Holds(n) = HoldsIn(calls, n))'
BY Totals, PTL

-----------------------------------------------------------------------------
(* What is found from a set of objects.                                    *)

LEMMA PropPairs ==
  HeapTyped => prop \in SUBSET (Object \X Object)
BY DEF HeapTyped

LEMMA VisitedIsIn ==
  \A n : Visited(n) = VisitedIn(prop, free_called, n)
BY DEF Visited, VisitedIn, Succ, SuccIn

LEMMA ClosureFacts ==
  HeapTyped =>
    \A S, T : /\ S \subseteq Closure(S, T)
              /\ \A n \in Closure(S, T) : (T \cap Visited(n)) \subseteq Closure(S, T)
<1> SUFFICES ASSUME HeapTyped, NEW S, NEW T
             PROVE  /\ S \subseteq Closure(S, T)
                    /\ \A n \in Closure(S, T) : (T \cap Visited(n)) \subseteq Closure(S, T)
  OBVIOUS
<1>1. Closure(S, T) = ClosureIn(prop, free_called, S, T) BY ClosureIsIn
<1>2. S \subseteq ClosureIn(prop, free_called, S, T) BY ClosureContains
<1>3. \A n \in ClosureIn(prop, free_called, S, T) :
        (T \cap VisitedIn(prop, free_called, n)) \subseteq ClosureIn(prop, free_called, S, T)
  BY PropPairs, ClosureClosed
<1> QED BY <1>1, <1>2, <1>3, VisitedIsIn

LEMMA ClosureFactsNext ==
  HeapTyped' =>
    (\A S, T : /\ S \subseteq Closure(S, T)
               /\ \A n \in Closure(S, T) : (T \cap Visited(n)) \subseteq Closure(S, T))'
BY ClosureFacts, PTL

LEMMA ClosureWithin ==
  \A S, T, X : S \subseteq X /\ (\A n \in X : (T \cap Visited(n)) \subseteq X) => Closure(S, T) \subseteq X
<1> SUFFICES ASSUME NEW S, NEW T, NEW X, S \subseteq X, \A n \in X : (T \cap Visited(n)) \subseteq X
             PROVE  Closure(S, T) \subseteq X
  OBVIOUS
<1>1. \A n \in X : (T \cap VisitedIn(prop, free_called, n)) \subseteq X BY VisitedIsIn
<1>2. ClosureIn(prop, free_called, S, T) \subseteq X BY <1>1, ClosureLeast
<1> QED BY <1>2, ClosureIsIn

LEMMA ReachFacts ==
  HeapTyped => \A S : S \subseteq Reach(S) /\ \A n \in Reach(S) : \A m \in Visited(n) : m \in Reach(S)
<1> SUFFICES ASSUME HeapTyped, NEW S, NEW n \in Reach(S), NEW m \in Visited(n) PROVE m \in Reach(S)
  BY ClosureFacts DEF Reach
<1>1. m \in Object BY InVisited, PropTyped
<1>2. (Object \cap Visited(n)) \subseteq Closure(S, Object) BY ClosureFacts DEF Reach
<1> QED BY <1>1, <1>2 DEF Reach

LEMMA ReachFactsNext ==
  HeapTyped' => (\A S : S \subseteq Reach(S) /\ \A n \in Reach(S) : \A m \in Visited(n) : m \in Reach(S))'
BY ReachFacts, PTL

LEMMA ReachWithin ==
  \A S, X : S \subseteq X /\ (\A n \in X : \A m \in Visited(n) : m \in X) => Reach(S) \subseteq X
<1> SUFFICES ASSUME NEW S, NEW X, S \subseteq X, \A n \in X : \A m \in Visited(n) : m \in X
             PROVE  Reach(S) \subseteq X
  OBVIOUS
<1>1. \A n \in X : (Object \cap Visited(n)) \subseteq X OBVIOUS
<1> QED BY <1>1, ClosureWithin DEF Reach

LEMMA ReachWithinNext ==
  (\A S, X : S \subseteq X /\ (\A n \in X : \A m \in Visited(n) : m \in X) => Reach(S) \subseteq X)'
BY ReachWithin, PTL

LEMMA InBase ==
  HeapTyped =>
    \A n : n \in Base <=> \/ n \in Object /\ variables[n] > 0
                          \/ \E c \in CallSet(calls) : c.obj = n
                          \/ \E m \in free_called : <<m, n>> \in prop
<1> SUFFICES ASSUME HeapTyped, NEW n
             PROVE  n \in Base <=> \/ n \in Object /\ variables[n] > 0
                                   \/ \E c \in CallSet(calls) : c.obj = n
                                   \/ \E m \in free_called : <<m, n>> \in prop
  OBVIOUS
<1>1. n \in Variables <=> n \in Object /\ variables[n] > 0 BY DEF Variables
<1>2. n \in Held <=> \E c \in CallSet(calls) : c.obj = n BY DEF Held
<1>3. n \in UNION {Succ(m) : m \in free_called} <=> \E m \in free_called : <<m, n>> \in prop
  <2>1. n \in UNION {Succ(m) : m \in free_called} <=> \E m \in free_called : n \in Succ(m) OBVIOUS
  <2> QED BY <2>1, InSucc
<1> QED BY <1>1, <1>2, <1>3 DEF Base

LEMMA InSources ==
  HeapTyped =>
    \A n : n \in Sources <=> \/ n \in Object /\ variables[n] > 0
                             \/ \E c \in CallSet(calls) : c.obj = n
                             \/ \E m \in free_called : <<m, n>> \in prop
                             \/ n \in Object /\ tag[n] # "none"
<1> SUFFICES ASSUME HeapTyped, NEW n
             PROVE  n \in Sources <=> \/ n \in Object /\ variables[n] > 0
                                      \/ \E c \in CallSet(calls) : c.obj = n
                                      \/ \E m \in free_called : <<m, n>> \in prop
                                      \/ n \in Object /\ tag[n] # "none"
  OBVIOUS
<1>1. n \in Sources <=> n \in Base \/ (n \in Object /\ tag[n] # "none")
  BY DEF Sources, Roots, Garbage, Tagged
<1> QED BY <1>1, InBase

LEMMA InSourcesNext ==
  HeapTyped' =>
    (\A n : n \in Sources <=> \/ n \in Object /\ variables[n] > 0
                              \/ \E c \in CallSet(calls) : c.obj = n
                              \/ \E m \in free_called : <<m, n>> \in prop
                              \/ n \in Object /\ tag[n] # "none")'
BY InSources, PTL

LEMMA InOutside ==
  HeapTyped =>
    \A n : n \in Outside <=> /\ ~(n \in Object /\ tag[n] = "garbage")
                             /\ \/ n \in Object /\ variables[n] > 0
                                \/ \E c \in CallSet(calls) : c.obj = n
                                \/ \E m \in free_called : tag[m] # "garbage" /\ <<m, n>> \in prop
<1> SUFFICES ASSUME HeapTyped, NEW n
             PROVE  n \in Outside <=> /\ ~(n \in Object /\ tag[n] = "garbage")
                                      /\ \/ n \in Object /\ variables[n] > 0
                                         \/ \E c \in CallSet(calls) : c.obj = n
                                         \/ \E m \in free_called : tag[m] # "garbage" /\ <<m, n>> \in prop
  OBVIOUS
<1>1. n \in Variables <=> n \in Object /\ variables[n] > 0 BY DEF Variables
<1>2. n \in Held <=> \E c \in CallSet(calls) : c.obj = n BY DEF Held
<1>3. \A m : m \in Garbage <=> m \in Object /\ tag[m] = "garbage" BY DEF Garbage, Tagged
<1>4. free_called \subseteq Object BY DEF HeapTyped
<1>5. n \in UNION {Succ(m) : m \in free_called \ Garbage} <=> \E m \in free_called : tag[m] # "garbage" /\ <<m, n>> \in prop
  <2>1. n \in UNION {Succ(m) : m \in free_called \ Garbage} <=> \E m \in free_called \ Garbage : n \in Succ(m) OBVIOUS
  <2> QED BY <2>1, <1>3, <1>4, InSucc
<1> QED BY <1>1, <1>2, <1>3, <1>5 DEF Outside

LEMMA InOutsideNext ==
  HeapTyped' =>
    (\A n : n \in Outside <=> /\ ~(n \in Object /\ tag[n] = "garbage")
                              /\ \/ n \in Object /\ variables[n] > 0
                                 \/ \E c \in CallSet(calls) : c.obj = n
                                 \/ \E m \in free_called : tag[m] # "garbage" /\ <<m, n>> \in prop)'
BY InOutside, PTL

\* What is found from the sources does not get less in a step that keeps them
\* or frees them, and that keeps a reference or makes its object a source.
LEMMA RootedKept ==
  ASSUME HeapTyped, HeapTyped', used \subseteq Reach(Sources),
         \A n \in used : n \in Sources /\ n \in used' => n \in Sources',
         \A n \in used' : n \notin used => n \in Sources',
         \A m, n \in used : n \in Visited(m) /\ n \in used' => n \in Visited(m)' \/ n \in Sources',
         \A m \in used : m \notin used' => Visited(m) = {}
  PROVE  used' \subseteq Reach(Sources)'
<1> DEFINE R == Reach(Sources)'
<1>1. PICK K : K = R OBVIOUS
<1>2. (\A S : S \subseteq Reach(S) /\ \A n \in Reach(S) : \A m \in Visited(n) : m \in Reach(S))' BY ReachFactsNext
<1>3. Sources' \subseteq K /\ \A n \in K : \A m \in Visited(n)' : m \in K
  <2>1. Sources' \subseteq R
    <3> DEFINE T == Sources'
    <3>1. (\A S : S \subseteq Reach(S))' BY <1>2
    <3>2. T \subseteq Reach(Sources)' BY ReachFactsNext
    <3> QED BY <3>2
  <2>2. \A n \in R : \A m \in Visited(n)' : m \in R BY ReachFactsNext
  <2> QED BY <2>1, <2>2, <1>1
<1> HIDE DEF R
<1> DEFINE X == K \cup (Sources \ used') \cup (used \ used')
<1>4. Sources \subseteq X
  <2> SUFFICES ASSUME NEW n \in Sources, n \in used' PROVE n \in K OBVIOUS
  <2>1. n \in Sources' OBVIOUS
  <2> QED BY <2>1, <1>3
<1>5. ASSUME NEW m \in X, NEW n \in Visited(m) PROVE n \in X
  <2>1. m \in used /\ n \in used BY InVisited, PropTyped
  <2>2. m \in used' BY <2>1
  <2>3. m \in K BY <2>2
  <2>4. CASE n \notin used' BY <2>4, <2>1
  <2>5. CASE n \in used'
    <3>1. n \in Visited(m)' \/ n \in Sources' BY <2>1, <2>5
    <3> QED BY <3>1, <2>3, <1>3
  <2> QED BY <2>4, <2>5
<1>6. Reach(Sources) \subseteq X BY <1>4, <1>5, ReachWithin
<1>7. \A n \in used' : n \in K BY <1>6, <1>3
<1> QED BY <1>7, <1>1 DEF R

-----------------------------------------------------------------------------
(* What the program can reach is alive.                                    *)

LEMMA ThisIsHeld ==
  \A n : n \in This <=> \E c \in CallSet(calls) : c.op = "dtor" /\ c.obj = n
BY DEF This, CallSet

LEMMA ReachableFacts ==
  HeapTyped =>
    /\ \A n \in Object : variables[n] > 0 => n \in Reachable
    /\ \A c \in CallSet(calls) : c.op = "dtor" => c.obj \in Reachable
    /\ \A n \in Reachable : \A m \in Visited(n) : m \in Reachable
BY ReachFacts, ThisIsHeld DEF Reachable

LEMMA ReachableAlive ==
  HeapTyped /\ Stacked /\ Isolated /\ Freed =>
    \A n \in Reachable : n \in used /\ n \in Object /\ n \notin free_called /\ n \notin nulled /\ tag[n] # "garbage"
<1> SUFFICES ASSUME HeapTyped, Stacked, Isolated, Freed
             PROVE  \A n \in Reachable : n \in used /\ n \in Object /\ n \notin free_called /\ n \notin nulled
                                           /\ tag[n] # "garbage"
  OBVIOUS
<1> DEFINE X == {n \in used : n \notin free_called /\ tag[n] # "garbage"}
<1>1. \A n : n \in Garbage <=> n \in Object /\ tag[n] = "garbage" BY DEF Garbage, Tagged
<1>2. \A n \in nulled : tag[n] = "garbage" BY DEF Freed
<1>3. \A n \in free_called : tag[n] # "garbage" => Call("free", n) \in CallSet(calls) BY <1>2 DEF Freed
<1>4. \A n : Call("free", n) \in CallSet(calls) => variables[n] = 0 /\ \A m \in used : <<m, n>> \notin prop
  <2> SUFFICES ASSUME NEW n, Call("free", n) \in CallSet(calls)
               PROVE  variables[n] = 0 /\ \A m \in used : <<m, n>> \notin prop
    OBVIOUS
  <2>1. CallFits(Call("free", n)) BY DEF Stacked
  <2>2. Call("free", n).op = "free" /\ Call("free", n).obj = n BY DEF Call
  <2> QED BY <2>1, <2>2 DEF CallFits
<1>5. ASSUME NEW n \in Object, variables[n] > 0 PROVE n \in X
  <2>1. n \in used BY <1>5 DEF HeapTyped
  <2>2. tag[n] # "garbage" BY <1>1, <1>5 DEF Isolated
  <2>3. n \notin free_called BY <2>2, <1>3, <1>4, <1>5
  <2> QED BY <2>1, <2>2, <2>3
<1>6. ASSUME NEW c \in CallSet(calls), c.op = "dtor" PROVE c.obj \in X
  <2>1. c.obj \in used /\ c.obj \in Object
    <3>1. CallFits(c) BY DEF Stacked
    <3> QED BY <3>1, <1>6 DEF CallFits, HeapTyped
  <2>2. tag[c.obj] # "garbage" BY <2>1, <1>1, <1>6 DEF Isolated
  <2>3. c.obj \notin free_called
    <3> SUFFICES ASSUME Call("free", c.obj) \in CallSet(calls) PROVE FALSE BY <2>2, <1>3
    <3>1. PICK i \in DOMAIN calls : calls[i] = Call("free", c.obj) BY DEF CallSet
    <3>2. PICK j \in DOMAIN calls : calls[j] = c BY DEF CallSet
    <3>3. calls[i].op = "free" /\ calls[i].obj = c.obj BY <3>1 DEF Call
    <3>4. j = i BY <3>2, <3>3 DEF Stacked, Shape
    <3> QED BY <3>2, <3>3, <3>4, <1>6
  <2> QED BY <2>1, <2>2, <2>3
<1>7. ASSUME NEW n \in X, NEW m \in Visited(n) PROVE m \in X
  <2>1. <<n, m>> \in prop /\ m \in used /\ m \in Object /\ n \in Object BY InVisited, PropTyped
  <2>2. tag[m] # "garbage" BY <2>1, <1>1 DEF Isolated
  <2>3. m \notin free_called BY <2>1, <2>2, <1>3, <1>4
  <2> QED BY <2>1, <2>2, <2>3
<1>8. {n \in Object : variables[n] > 0} \cup This \subseteq X
  <2>1. \A n \in {k \in Object : variables[k] > 0} : n \in X BY <1>5
  <2>2. \A n \in This : n \in X BY <1>6, ThisIsHeld
  <2> QED BY <2>1, <2>2
<1>9. Reachable \subseteq X BY <1>8, <1>7, ReachWithin DEF Reachable
<1>10. X \subseteq Object BY DEF HeapTyped
<1> QED BY <1>9, <1>10, <1>2

-----------------------------------------------------------------------------
(* What a call that is made or returns changes.                            *)

PushFacts(t, c, s) ==
  /\ t \in Seq(CallRec) /\ s \in Seq(CallRec) /\ c \in CallRec /\ t # <<>> /\ t[1] = c
  /\ CallSet(t) = CallSet(s) \cup {c}
  /\ (Collects(t) <=> c.op = "collect" \/ Collects(s))
  /\ Above(t) = IF Collects(s) THEN Above(s) \cup {c} ELSE {}
  /\ Below(t) = IF Collects(s) THEN Below(s) ELSE CallSet(t)
  /\ \A n : HoldsIn(s, n) \in Nat /\ HoldsIn(t, n) = HoldsIn(s, n) + (IF c.obj = n /\ c.op # "del" THEN 1 ELSE 0)
  /\ (Shape(t) <=> Shape(s) /\ MayPush(c, s))

LEMMA PushedCalls ==
  ASSUME NEW t, NEW c, NEW s, IsPush(t, c, s)
  PROVE  CallSet(t) = CallSet(s) \cup {c}
<1>1. \A x \in CallSet(t) : x \in CallSet(s) \cup {c} BY DEF CallSet, IsPush
<1>2. \A x \in CallSet(s) : x \in CallSet(t) BY DEF CallSet, IsPush
<1>3. c \in CallSet(t)
  <2>1. 1 \in DOMAIN t /\ t[1] = c BY DEF IsPush
  <2> QED BY <2>1 DEF CallSet
<1> QED BY <1>1, <1>2, <1>3

LEMMA PushFact ==
  ASSUME NEW s \in Seq(CallRec), NEW c \in CallRec
  PROVE  PushFacts(<<c>> \o s, c, s)
<1> DEFINE t == <<c>> \o s
<1>1. t = <<c>> \o s OBVIOUS
<1>2. IsPush(t, c, s) BY PushedIsPush
<1> HIDE DEF t
<1>3. t \in Seq(CallRec) /\ t # <<>> /\ t[1] = c BY <1>1, Pushed
<1>4. /\ CallSet(t) = CallSet(s) \cup {c}
      /\ (Collects(t) <=> c.op = "collect" \/ Collects(s))
      /\ Above(t) = IF Collects(s) THEN Above(s) \cup {c} ELSE {}
      /\ Below(t) = IF Collects(s) THEN Below(s) ELSE CallSet(t)
  <2>1. CallSet(t) = CallSet(s) \cup {c} BY <1>2, PushedCalls
  <2>2. Collects(t) <=> c.op = "collect" \/ Collects(s) BY <1>1, PushedSets
  <2>3. Above(t) = IF Collects(s) THEN Above(s) \cup {c} ELSE {} BY <1>1, PushedSets
  <2>4. Below(t) = IF Collects(s) THEN Below(s) ELSE CallSet(t) BY <1>1, PushedSets
  <2> QED BY <2>1, <2>2, <2>3, <2>4
<1>5. \A n : HoldsIn(s, n) \in Nat /\ HoldsIn(t, n) = HoldsIn(s, n) + (IF c.obj = n /\ c.op # "del" THEN 1 ELSE 0)
  BY <1>2, PushedHolds
<1>6. Shape(t) => Shape(s) /\ MayPush(c, s) BY <1>2, PoppedShape
<1>7. Shape(s) /\ MayPush(c, s) => Shape(t) BY <1>2, PushedShape
<1>8. PushFacts(t, c, s) BY <1>3, <1>4, <1>5, <1>6, <1>7 DEF PushFacts
<1> QED BY <1>8, <1>1

LEMMA PopFact ==
  ASSUME NEW s \in Seq(CallRec), s # <<>>
  PROVE  PushFacts(s, s[1], Tail(s)) /\ Tail(s) \in Seq(CallRec) /\ s[1] \in CallRec
<1>1. s = <<s[1]>> \o Tail(s) /\ Tail(s) \in Seq(CallRec) /\ s[1] \in CallRec BY Popped
<1>2. PushFacts(<<s[1]>> \o Tail(s), s[1], Tail(s)) BY <1>1, PushFact
<1> QED BY <1>1, <1>2

LEMMA TwoFact ==
  ASSUME NEW s \in Seq(CallRec), NEW c \in CallRec, NEW d \in CallRec
  PROVE  \E t : PushFacts(t, d, s) /\ PushFacts(<<c, d>> \o s, c, t)
<1> DEFINE t == <<d>> \o s
<1>1. <<c, d>> \o s = <<c>> \o t /\ t \in Seq(CallRec) BY PushedTwo
<1>2. PushFacts(t, d, s) BY PushFact
<1> HIDE DEF t
<1>3. PushFacts(<<c>> \o t, c, t) BY <1>1, PushFact
<1> QED BY <1>1, <1>2, <1>3

LEMMA TopIn ==
  Stacked /\ calls # <<>> => calls[1] \in CallSet(calls) /\ calls[1] \in CallRec /\ CallFits(calls[1])
<1> SUFFICES ASSUME Stacked, calls # <<>>
             PROVE  calls[1] \in CallSet(calls) /\ calls[1] \in CallRec /\ CallFits(calls[1])
  OBVIOUS
<1>1. PushFacts(calls, calls[1], Tail(calls)) BY PopFact DEF Stacked
<1> QED BY <1>1 DEF PushFacts, Stacked

\* The program, a deletion and a destructor run outside of the passes.
LEMMA NotPassing ==
  GCTyped /\ Phased /\ ~Top("collect") =>
    /\ gc.phase \in {"idle", "dtors", "destroy"}
    /\ Collects(calls) <=> gc.phase # "idle"
    /\ gc.phase = "idle" => Garbage = {} /\ Tagged("dtor") = {} /\ nulled = {}
    /\ gc.work = {} /\ gc.black = {}
    /\ \A n \in Object : color[n] = IF tag[n] \in {"root", "dtor"} THEN "purple" ELSE "black"
BY DEF GCTyped, Phased

\* While a collection without destructors destroys the garbage, the calls
\* that it makes are about garbage.
LEMMA QuietTop ==
  Stacked /\ GCTyped /\ Phased /\ Isolated /\ Quiet /\ ~Top("collect") /\ gc.phase = "destroy" /\ ~gc.dtors =>
    /\ calls # <<>> /\ calls[1].obj \in Garbage /\ calls[1].op \in {"del", "free", "gcfree"}
    /\ used \subseteq Garbage \cup Reach(Outside)
    /\ \A c \in Above(calls) : c.obj \in Garbage
<1> SUFFICES ASSUME Stacked, GCTyped, Phased, Isolated, Quiet, ~Top("collect"), gc.phase = "destroy", ~gc.dtors
             PROVE  calls # <<>> /\ calls[1].obj \in Garbage /\ calls[1].op \in {"del", "free", "gcfree"}
  BY DEF Quiet
<1>1. Collects(calls) BY DEF Phased
<1>2. calls # <<>> BY <1>1 DEF Collects
<1>3. PushFacts(calls, calls[1], Tail(calls)) BY <1>2, PopFact DEF Stacked
<1>4. calls[1].op # "collect" BY <1>2 DEF Top
<1>5. calls[1] \in Above(calls) BY <1>1, <1>3, <1>4 DEF PushFacts
<1>6. calls[1].obj \in Garbage BY <1>5 DEF Quiet
<1>7. calls[1] \in CallSet(calls) BY <1>2, TopIn
<1> QED BY <1>2, <1>6, <1>7 DEF Isolated

\* A reference more, a reference less.
LEMMA InPlus ==
  ASSUME HeapTyped, NEW m, NEW n, <<m, n>> \notin prop, prop' = prop \cup {<<m, n>>}
  PROVE  \A k : Cardinality(In(k))' = Cardinality(In(k)) + (IF k = n THEN 1 ELSE 0)
<1> SUFFICES ASSUME NEW k PROVE Cardinality(In(k))' = Cardinality(In(k)) + (IF k = n THEN 1 ELSE 0) OBVIOUS
<1>1. IsFiniteSet(In(k)) /\ Cardinality(In(k)) \in Nat BY InFinite
<1>2. <<m, n>>[2] = n OBVIOUS
<1>3. CASE k = n
  <2>1. In(k)' = In(k) \cup {<<m, n>>} /\ <<m, n>> \notin In(k) BY <1>2, <1>3 DEF In
  <2>2. Cardinality(In(k) \cup {<<m, n>>}) = Cardinality(In(k)) + 1 BY <1>1, <2>1, FS_AddElement
  <2> QED BY <2>1, <2>2, <1>3
<1>4. CASE k # n
  <2>1. In(k)' = In(k) BY <1>2, <1>4 DEF In
  <2> QED BY <2>1, <1>1, <1>4
<1> QED BY <1>3, <1>4

LEMMA InMinus ==
  ASSUME HeapTyped, NEW m, NEW n, <<m, n>> \in prop, prop' = prop \ {<<m, n>>}
  PROVE  \A k : Cardinality(In(k))' = Cardinality(In(k)) - (IF k = n THEN 1 ELSE 0)
<1> SUFFICES ASSUME NEW k PROVE Cardinality(In(k))' = Cardinality(In(k)) - (IF k = n THEN 1 ELSE 0) OBVIOUS
<1>1. IsFiniteSet(In(k)) /\ Cardinality(In(k)) \in Nat BY InFinite
<1>2. <<m, n>>[2] = n OBVIOUS
<1>3. CASE k = n
  <2>1. In(k)' = In(k) \ {<<m, n>>} /\ <<m, n>> \in In(k) BY <1>2, <1>3 DEF In
  <2>2. Cardinality(In(k) \ {<<m, n>>}) = Cardinality(In(k)) - 1 BY <1>1, <2>1, FS_RemoveElement
  <2> QED BY <2>1, <2>2, <1>3
<1>4. CASE k # n
  <2>1. In(k)' = In(k) BY <1>2, <1>4 DEF In
  <2> QED BY <2>1, <1>1, <1>4
<1> QED BY <1>3, <1>4

\* A deletion is the innermost call.
LEMMA NoDel ==
  Stacked /\ ~Top("del") => \A c \in CallSet(calls) : c.op # "del"
<1> SUFFICES ASSUME Stacked, ~Top("del"), NEW c \in CallSet(calls), c.op = "del" PROVE FALSE OBVIOUS
<1>1. PICK i \in DOMAIN calls : c = calls[i] BY DEF CallSet
<1>2. i = 1 BY <1>1 DEF Stacked, Shape
<1>3. calls # <<>> BY <1>1
<1> QED BY <1>1, <1>2, <1>3 DEF Top

LEMMA NoDelBelow ==
  ASSUME NEW s, NEW c, NEW t, PushFacts(t, c, s), Shape(t)
  PROVE  \A d \in CallSet(s) : d.op # "del"
<1> SUFFICES ASSUME NEW d \in CallSet(s), d.op = "del" PROVE FALSE OBVIOUS
<1>1. Shape(s) /\ MayPush(c, s) /\ s \in Seq(CallRec) BY DEF PushFacts
<1>2. PICK i \in DOMAIN s : d = s[i] BY DEF CallSet
<1>3. i = 1 BY <1>1, <1>2 DEF Shape
<1>4. s # <<>> BY <1>1, <1>2
<1> QED BY <1>1, <1>2, <1>3, <1>4 DEF MayPush

\* A step that takes a reference to n away: what is left of it is a call, a
\* slot in the buffer, or a collection that comes first.
Released(n) ==
  /\ n \in used /\ UNCHANGED objectVars
  /\ prop' \subseteq prop /\ variables' \in [Object -> 0 .. MaxVars]
  /\ \A k \in Object : variables'[k] <= variables[k] /\ (variables[k] > 0 => variables'[k] > 0 \/ k = n)
  /\ \A m, k : <<m, k>> \in prop => <<m, k>> \in prop' \/ k = n
  /\ \/ UNCHANGED <<tag, color>>
     \/ tag[n] = "none" /\ gc_possible_root(n)
  /\ \/ UNCHANGED gc
     \/ gc.phase = "idle" /\ gc' = [Idle EXCEPT !.phase = "mark"] /\ Top("collect")'
  /\ refcount' \in [Object -> Int] /\ \A k \in Object : k # n => refcount'[k] = refcount[k]
  /\ \A k \in used : refcount'[k] = variables'[k] + Cardinality(In(k))' + HoldsIn(calls', k)
  /\ calls' \in Seq(CallRec) /\ Shape(calls')
  /\ (Collects(calls') <=> gc'.phase # "idle")
  /\ (Collects(calls) => Below(calls') = Below(calls))
  /\ \A c \in CallSet(calls) :
       c \in CallSet(calls') \/ (c.obj = n /\ c.op # "free" /\ (c.op = "gcfree" => Succ(n) = {}))
  /\ \A c \in CallSet(calls') :
       \/ c \in CallSet(calls) /\ c.op # "del"
       \/ c = Call("del", n) /\ refcount'[n] = 0
       \/ c = Call("full", n) /\ tag[n] = "none"
       \/ c = Call("collect", "none")
  /\ tag'[n] # "none" \/ \E c \in CallSet(calls') : c.obj = n
  /\ (Top("undtor")' => tag'[calls'[1].obj] # "none")

LEMMA ReleasedTag ==
  ASSUME HeapTyped, NEW n, Released(n)
  PROVE  /\ tag' \in [Object -> {"none", "root", "garbage", "dtor"}]
         /\ color' \in [Object -> {"black", "white", "grey", "purple"}]
         /\ \A k \in Object : tag'[k] = tag[k] \/ (k = n /\ tag[k] = "none" /\ tag'[k] = "root")
         /\ \A k \in Object : /\ tag'[k] # tag[k] => color'[k] = "purple"
                              /\ tag'[k] = tag[k] => color'[k] = color[k]
<1>1. n \in Object BY DEF HeapTyped, Released
<1>2. CASE UNCHANGED <<tag, color>> BY <1>2 DEF HeapTyped
<1>3. CASE tag[n] = "none" /\ gc_possible_root(n)
  <2>1. tag' = [tag EXCEPT ![n] = "root"] /\ color' = [color EXCEPT ![n] = "purple"] BY <1>3 DEF gc_possible_root
  <2> QED BY <2>1, <1>1, <1>3 DEF HeapTyped
<1> QED BY <1>2, <1>3 DEF Released

LEMMA ReleasedHeap ==
  ASSUME HeapTyped, NEW n, Released(n)
  PROVE  HeapTyped'
<1>1. n \in Object /\ n \in used BY DEF HeapTyped, Released
<1>2. used' = used /\ dtor_called' = dtor_called /\ free_called' = free_called /\ nulled' = nulled
  BY DEF Released, objectVars
<1>3. prop' \subseteq used' \X used' BY <1>2 DEF Released, HeapTyped
<1>4. \A k \in Object \ used' : variables'[k] = 0 /\ refcount'[k] = 0 /\ tag'[k] = "none"
  <2> SUFFICES ASSUME NEW k \in Object \ used' PROVE variables'[k] = 0 /\ refcount'[k] = 0 /\ tag'[k] = "none"
    OBVIOUS
  <2>1. k \in Object /\ k \notin used /\ k # n BY <1>1, <1>2
  <2>2. variables[k] = 0 /\ refcount[k] = 0 /\ tag[k] = "none" BY <2>1 DEF HeapTyped
  <2>3. variables'[k] = 0
    <3>1. variables'[k] \in 0 .. MaxVars /\ variables'[k] <= variables[k] BY <2>1 DEF Released
    <3> QED BY <3>1, <2>2, GCAssumption
  <2>4. refcount'[k] = 0 BY <2>1, <2>2 DEF Released
  <2> QED BY <2>1, <2>2, <2>3, <2>4, ReleasedTag
<1>5. tag' \in [Object -> {"none", "root", "garbage", "dtor"}] /\ color' \in [Object -> {"black", "white", "grey", "purple"}]
  BY ReleasedTag
<1> QED BY <1>2, <1>3, <1>4, <1>5 DEF HeapTyped, Released

LEMMA ReleasedGC ==
  ASSUME HeapTyped, GCTyped, NEW n, Released(n)
  PROVE  GCTyped' /\ gc'.phase \in {gc.phase, "mark"} /\ (gc'.phase # gc.phase => gc.phase = "idle")
<1>1. used' = used BY DEF Released, objectVars
<1> QED BY <1>1 DEF Released, GCTyped, Idle

LEMMA ReleasedStacked ==
  ASSUME HeapTyped, Stacked, NEW n, Released(n)
  PROVE  Stacked'
<1>1. used' = used /\ dtor_called' = dtor_called /\ free_called' = free_called /\ nulled' = nulled
  BY DEF Released, objectVars
<1>2. calls' \in Seq(CallRec) /\ Shape(calls') /\ (Top("undtor")' => tag'[calls'[1].obj] # "none") BY DEF Released
<1>3. ASSUME NEW c \in CallSet(calls') PROVE CallFits(c)'
  <2>1. n \in used /\ n \in Object /\ n # "none" BY GCAssumption DEF HeapTyped, Released
  <2>2. CASE c \in CallSet(calls) /\ c.op # "del"
    <3>1. CallFits(c) BY <2>2 DEF Stacked
    <3>2. c.op = "free" => variables'[c.obj] = 0
      <4> SUFFICES ASSUME c.op = "free" PROVE variables'[c.obj] = 0 OBVIOUS
      <4>1. c.obj \in Object /\ variables[c.obj] = 0 BY <3>1 DEF CallFits, HeapTyped
      <4>2. variables'[c.obj] \in 0 .. MaxVars /\ variables'[c.obj] <= 0 BY <4>1 DEF Released
      <4> QED BY <4>2, GCAssumption
    <3>3. c.op = "free" => \A m \in used : <<m, c.obj>> \notin prop' BY <3>1 DEF CallFits, Released
    <3>4. c.op = "gcdtor" => tag'[c.obj] = "root"
      <4> SUFFICES ASSUME c.op = "gcdtor" PROVE tag'[c.obj] = "root" OBVIOUS
      <4>1. c.obj \in Object /\ tag[c.obj] = "root" BY <3>1, <4>1 DEF CallFits, HeapTyped
      <4> QED BY <4>1, ReleasedTag
    <3> QED BY <3>1, <3>2, <3>3, <3>4, <1>1, <2>2 DEF CallFits
  <2>3. CASE c = Call("del", n) /\ refcount'[n] = 0
    <3>1. c.op = "del" /\ c.obj = n BY <2>3 DEF Call
    <3> QED BY <3>1, <2>3, <2>1, <1>1 DEF CallFits
  <2>4. CASE c = Call("full", n)
    <3>1. c.op = "full" /\ c.obj = n BY <2>4 DEF Call
    <3> QED BY <3>1, <2>1, <1>1 DEF CallFits
  <2>5. CASE c = Call("collect", "none")
    <3>1. c.op = "collect" /\ c.obj = "none" BY <2>5 DEF Call
    <3> QED BY <3>1 DEF CallFits
  <2> QED BY <2>2, <2>3, <2>4, <2>5 DEF Released
<1> QED BY <1>2, <1>3 DEF Stacked

LEMMA ReleasedExact ==
  ASSUME GCTyped, Phased, ~Top("collect"), NEW n, Released(n)
  PROVE  Exact'
<1>1. gc'.phase # "scan"
  <2>1. gc.phase # "scan" BY NotPassing
  <2> QED BY <2>1 DEF Released, Idle
<1>2. used' = used BY DEF Released, objectVars
<1> QED BY <1>1, <1>2 DEF Exact, Total, Released

LEMMA ReleasedPhased ==
  ASSUME HeapTyped, GCTyped, Phased, ~Top("collect"), NEW n, Released(n)
  PROVE  Phased'
<1>1. used' = used /\ dtor_called' = dtor_called /\ free_called' = free_called /\ nulled' = nulled
  BY DEF Released, objectVars
<1>2. \A t \in {"garbage", "dtor"} : Tagged(t)' = Tagged(t)
  <2> SUFFICES ASSUME NEW t \in {"garbage", "dtor"}, NEW k \in Object PROVE tag'[k] = t <=> tag[k] = t
    BY DEF Tagged
  <2> QED BY ReleasedTag
<1>3. Garbage' = Garbage /\ Tagged("dtor")' = Tagged("dtor") BY <1>2 DEF Garbage
<1>4. ASSUME NEW k \in Object PROVE color'[k] = IF tag'[k] \in {"root", "dtor"} THEN "purple" ELSE "black"
  <2>1. color[k] = IF tag[k] \in {"root", "dtor"} THEN "purple" ELSE "black" BY NotPassing
  <2> QED BY <2>1, ReleasedTag
<1>5. Collects(calls') <=> gc'.phase # "idle" BY DEF Released
<1>6. CASE UNCHANGED gc
  <2>1. gc.phase \in {"idle", "dtors", "destroy"} /\ gc.work = {} /\ gc.black = {} BY NotPassing
  <2> QED BY <2>1, <1>6, <1>1, <1>3, <1>4, <1>5 DEF Phased
<1>7. CASE gc.phase = "idle" /\ gc' = [Idle EXCEPT !.phase = "mark"] /\ Top("collect")'
  <2>1. gc'.phase = "mark" /\ gc'.work = {} /\ gc'.black = {} /\ Top("collect")' BY <1>7 DEF Idle
  <2>2. Garbage = {} /\ Tagged("dtor") = {} /\ nulled = {} BY <1>7, NotPassing
  <2> QED BY <2>1, <2>2, <1>1, <1>3, <1>4, <1>5 DEF Phased
<1> QED BY <1>6, <1>7 DEF Released

LEMMA ReleasedIsolated ==
  ASSUME HeapTyped, GCTyped, Phased, Isolated, ~Top("collect"), NEW n, Released(n)
  PROVE  Isolated'
<1>1. used' = used BY DEF Released, objectVars
<1>2. Garbage' = Garbage
  <2> SUFFICES ASSUME NEW k \in Object PROVE tag'[k] = "garbage" <=> tag[k] = "garbage"
    BY DEF Garbage, Tagged
  <2> QED BY ReleasedTag
<1> SUFFICES ASSUME NEW g \in Garbage
             PROVE  /\ variables'[g] = 0 /\ \A m \in used : <<m, g>> \in prop' => m \in Garbage
                    /\ \A c \in CallSet(calls') :
                         c.obj = g => c.op \in {"del", "free", "gcfree"} /\ c \notin Below(calls')
  BY <1>1, <1>2 DEF Isolated
<1>3. g \in Object /\ tag[g] = "garbage" BY DEF Garbage, Tagged
<1>4. variables'[g] = 0
  <2>1. variables[g] = 0 BY DEF Isolated
  <2>2. variables'[g] \in 0 .. MaxVars /\ variables'[g] <= 0 BY <2>1, <1>3 DEF Released
  <2> QED BY <2>2, GCAssumption
<1>5. \A m \in used : <<m, g>> \in prop' => m \in Garbage BY DEF Isolated, Released
<1>6. Below(calls') = Below(calls)
  <2>1. Collects(calls) BY NotPassing
  <2> QED BY <2>1 DEF Released
<1>7. ASSUME NEW c \in CallSet(calls'), c.obj = g
      PROVE  c.op \in {"del", "free", "gcfree"} /\ c \notin Below(calls')
  <2>1. CASE c \in CallSet(calls) BY <2>1, <1>6, <1>7 DEF Isolated
  <2>2. CASE c = Call("del", n) /\ c \notin CallSet(calls)
    <3>1. c.op = "del" BY <2>2 DEF Call
    <3>2. Below(calls) \subseteq CallSet(calls) BY DEF Below, CallSet
    <3> QED BY <3>1, <3>2, <2>2, <1>6
  <2>3. CASE c = Call("full", n) /\ tag[n] = "none" BY <2>3, <1>3, <1>7 DEF Call
  <2>4. CASE c = Call("collect", "none") BY <2>4, <1>3, <1>7, GCAssumption DEF Call
  <2> QED BY <2>1, <2>2, <2>3, <2>4 DEF Released
<1> QED BY <1>4, <1>5, <1>7

LEMMA ReleasedWaiting ==
  ASSUME HeapTyped, GCTyped, Phased, Waiting, ~Top("collect"), NEW n, Released(n)
  PROVE  Waiting'
<1> SUFFICES ASSUME NEW k \in Object, tag'[k] = "dtor", NEW c \in Below(calls') PROVE c.obj # k
  BY DEF Waiting, Tagged
<1>1. tag[k] = "dtor" BY ReleasedTag
<1>2. k \in Tagged("dtor") BY <1>1 DEF Tagged
<1>3. Collects(calls) BY <1>2, NotPassing
<1>4. c \in Below(calls) BY <1>3 DEF Released
<1> QED BY <1>2, <1>4 DEF Waiting

LEMMA ReleasedFreed ==
  ASSUME HeapTyped, HeapTyped', Freed, NEW n, Released(n)
  PROVE  Freed'
<1>1. used' = used /\ dtor_called' = dtor_called /\ free_called' = free_called /\ nulled' = nulled
  BY DEF Released, objectVars
<1>2. \A k : Succ(k)' \subseteq Succ(k)
  <2>1. (\A k, m : m \in Succ(k) <=> <<k, m>> \in prop)' BY InSuccNext
  <2>2. \A k, m : m \in Succ(k) <=> <<k, m>> \in prop BY InSucc
  <2> QED BY <2>1, <2>2 DEF Released
<1>3. ASSUME NEW k \in free_called, k \notin nulled PROVE Call("free", k) \in CallSet(calls')
  <2>1. Call("free", k) \in CallSet(calls) BY <1>3 DEF Freed
  <2>2. Call("free", k).op = "free" BY DEF Call
  <2> QED BY <2>1, <2>2 DEF Released
<1>4. ASSUME NEW k \in nulled PROVE tag'[k] = "garbage" /\ (Succ(k)' = {} \/ Call("gcfree", k) \in CallSet(calls'))
  <2>1. k \in Object /\ tag[k] = "garbage" /\ (Succ(k) = {} \/ Call("gcfree", k) \in CallSet(calls))
    BY DEF Freed, HeapTyped
  <2>2. tag'[k] = "garbage" BY <2>1, ReleasedTag
  <2>3. CASE Succ(k) = {} BY <2>2, <2>3, <1>2
  <2>4. CASE Call("gcfree", k) \in CallSet(calls)
    <3>1. Call("gcfree", k).op = "gcfree" /\ Call("gcfree", k).obj = k BY DEF Call
    <3>2. Call("gcfree", k) \in CallSet(calls') \/ (k = n /\ Succ(n) = {}) BY <2>4, <3>1 DEF Released
    <3> QED BY <3>2, <2>2, <1>2
  <2> QED BY <2>1, <2>3, <2>4
<1> QED BY <1>1, <1>3, <1>4 DEF Freed

LEMMA ReleasedRooted ==
  ASSUME HeapTyped, HeapTyped', GCTyped, Phased, Rooted, ~Top("collect"), NEW n, Released(n)
  PROVE  Rooted'
<1>1. used' = used /\ dtor_called' = dtor_called /\ free_called' = free_called /\ nulled' = nulled
  BY DEF Released, objectVars
<1>2. n \in used /\ n \in Object BY DEF HeapTyped, Released
<1>3. gc'.phase # "scan"
  <2>1. gc.phase # "scan" BY NotPassing
  <2> QED BY <2>1 DEF Released, Idle
<1>4. (\A k : k \in Sources <=> \/ k \in Object /\ variables[k] > 0
                                \/ \E c \in CallSet(calls) : c.obj = k
                                \/ \E m \in free_called : <<m, k>> \in prop
                                \/ k \in Object /\ tag[k] # "none")'
  BY InSourcesNext
<1>5. n \in Sources' BY <1>4, <1>2 DEF Released
<1>6. ASSUME NEW k \in Sources, k # n PROVE k \in Sources'
  <2>1. \/ k \in Object /\ variables[k] > 0
        \/ \E c \in CallSet(calls) : c.obj = k
        \/ \E m \in free_called : <<m, k>> \in prop
        \/ k \in Object /\ tag[k] # "none"
    BY InSources
  <2>2. CASE k \in Object /\ variables[k] > 0
    <3>1. variables'[k] > 0 BY <2>2, <1>6 DEF Released
    <3> QED BY <3>1, <2>2, <1>4
  <2>3. CASE \E c \in CallSet(calls) : c.obj = k
    <3>1. \E c \in CallSet(calls') : c.obj = k BY <2>3, <1>6 DEF Released
    <3> QED BY <3>1, <1>4
  <2>4. CASE \E m \in free_called : <<m, k>> \in prop
    <3>1. \E m \in free_called' : <<m, k>> \in prop' BY <2>4, <1>6, <1>1 DEF Released
    <3> QED BY <3>1, <1>4
  <2>5. CASE k \in Object /\ tag[k] # "none"
    <3>1. tag'[k] # "none" BY <2>5, ReleasedTag
    <3> QED BY <3>1, <2>5, <1>4
  <2> QED BY <2>1, <2>2, <2>3, <2>4, <2>5
<1>7. ASSUME NEW m \in used, NEW k \in Visited(m) PROVE k \in Visited(m)' \/ k \in Sources'
  <2>1. m \notin free_called /\ <<m, k>> \in prop BY InVisited
  <2>2. <<m, k>> \in prop' \/ k = n BY <2>1 DEF Released
  <2>3. (\A j, l : l \in Visited(j) <=> j \notin free_called /\ <<j, l>> \in prop)' BY InVisitedNext
  <2> QED BY <2>1, <2>2, <2>3, <1>1, <1>5
<1>8. used \subseteq Reach(Sources) BY DEF Rooted
<1>9. used' \subseteq Reach(Sources)' BY <1>1, <1>5, <1>6, <1>7, <1>8, RootedKept
<1> QED BY <1>3, <1>9 DEF Rooted

Kept ==
  /\ HeapTyped /\ GCTyped /\ Stacked /\ Exact /\ Phased
  /\ Isolated /\ Waiting /\ Freed /\ Scanned /\ Rooted

LEMMA ReleasedKeeps ==
  ASSUME IInv, ~Top("collect"), NEW n, Released(n)
  PROVE  Kept'
<1>1. HeapTyped' BY ReleasedHeap DEF IInv
<1>2. GCTyped' /\ gc'.phase # "scan"
  <2>1. gc.phase # "scan" BY NotPassing DEF IInv
  <2> QED BY <2>1, ReleasedGC DEF IInv
<1>3. Stacked' /\ Exact' /\ Phased' /\ Isolated' BY ReleasedStacked, ReleasedExact, ReleasedPhased, ReleasedIsolated DEF IInv
<1>4. Freed' /\ Rooted' BY <1>1, ReleasedFreed, ReleasedRooted DEF IInv
<1>5. Scanned' /\ Waiting' BY <1>2, ReleasedWaiting DEF Scanned, IInv
<1> QED BY <1>1, <1>2, <1>3, <1>4, <1>5 DEF Kept

-----------------------------------------------------------------------------
(* zend_object_release.                                                    *)

\* What the release of n is called with; rest are the calls to go on with.
Releasing(n, rest) ==
  /\ n \in used /\ UNCHANGED objectVars
  /\ prop' \subseteq prop /\ variables' \in [Object -> 0 .. MaxVars]
  /\ \A k \in Object : variables'[k] <= variables[k] /\ (variables[k] > 0 => variables'[k] > 0 \/ k = n)
  /\ \A m, k : <<m, k>> \in prop => <<m, k>> \in prop' \/ k = n
  /\ rest \in Seq(CallRec) /\ Shape(rest)
  /\ \A c \in CallSet(rest) : c \in CallSet(calls) /\ c.op # "del"
  /\ \A c \in CallSet(calls) : c \in CallSet(rest) \/ (c.obj = n /\ c.op # "free" /\ (c.op = "gcfree" => Succ(n) = {}))
  /\ (Collects(rest) <=> Collects(calls))
  /\ (Collects(calls) => Below(rest) = Below(calls))
  /\ (rest # <<>> /\ rest[1].op = "undtor" => rest[1].obj = n)
  /\ \A k \in used : /\ Cardinality(In(k))' \in Nat /\ HoldsIn(rest, k) \in Nat
                     /\ variables'[k] + Cardinality(In(k))' + HoldsIn(rest, k) = Total(k) - (IF k = n THEN 1 ELSE 0)
  /\ \A c \in CallSet(calls) : c.op = "free" => c.obj # n

LEMMA HoldsMember ==
  ASSUME NEW s \in Seq(CallRec), NEW c \in CallSet(s), c.op # "del"
  PROVE  HoldsIn(s, c.obj) >= 1
<1>1. HoldsIn(s, c.obj) \in Nat /\ (HoldsIn(s, c.obj) = 0 <=> \A d \in CallSet(s) : d.obj = c.obj => d.op = "del")
  BY HeldOnce
<1> QED BY <1>1

\* Before a call that is not made by a deletion.
LEMMA ReleasingPush ==
  ASSUME IInv, ~Top("collect"), NEW n, NEW rest, Releasing(n, rest), NEW op \in {"del", "full"},
         op = "del" => refcount[n] = 1
  PROVE  MayPush(Call(op, n), rest) /\ Call(op, n) \in CallRec /\ Call(op, n).op = op /\ Call(op, n).obj = n
<1>1. Call(op, n).op = op /\ Call(op, n).obj = n BY DEF Call
<1>2. n \in Object /\ n \in used BY DEF Releasing, IInv, HeapTyped
<1>3. Call(op, n) \in CallRec BY <1>2 DEF Call, CallRec, Ops
<1>4. rest # <<>> => rest[1] \in CallSet(rest)
  <2> SUFFICES ASSUME rest # <<>> PROVE rest[1] \in CallSet(rest) OBVIOUS
  <2>1. PushFacts(rest, rest[1], Tail(rest)) BY PopFact DEF Releasing
  <2> QED BY <2>1 DEF PushFacts
<1>5. rest # <<>> => rest[1].op # "del" BY <1>4 DEF Releasing
<1>6. rest # <<>> /\ rest[1].op = "undtor" => rest[1].obj = n /\ op = "full"
  <2> SUFFICES ASSUME rest # <<>>, rest[1].op = "undtor", op = "del" PROVE FALSE BY DEF Releasing
  <2>1. rest[1].obj = n BY DEF Releasing
  <2>2. HoldsIn(rest, n) >= 1
    <3>1. rest \in Seq(CallRec) /\ rest[1] \in CallSet(rest) /\ rest[1].op # "del" BY <1>4, <1>5 DEF Releasing
    <3> QED BY <3>1, <2>1, HoldsMember
  <2>3. variables'[n] + Cardinality(In(n))' + HoldsIn(rest, n) = Total(n) - 1 /\ Cardinality(In(n))' \in Nat
          /\ HoldsIn(rest, n) \in Nat
    BY <1>2 DEF Releasing
  <2>4. variables'[n] \in 0 .. MaxVars BY <1>2 DEF Releasing
  <2>5. refcount[n] = Total(n)
    <3>1. gc.phase # "scan" BY NotPassing DEF IInv
    <3> QED BY <3>1, <1>2 DEF IInv, Exact
  <2>6. Total(n) = 1 BY <2>5
  <2> QED BY <2>2, <2>3, <2>4, <2>6, GCAssumption
<1>7. \A d \in CallSet(rest) : d.op = "free" => d.obj # n BY DEF Releasing
<1> QED BY <1>1, <1>3, <1>5, <1>6, <1>7 DEF MayPush

LEMMA ReleasingCount ==
  ASSUME IInv, ~Top("collect"), NEW n, NEW rest, Releasing(n, rest)
  PROVE  /\ refcount[n] \in Nat /\ refcount[n] >= 1
         /\ \A k \in used : /\ HoldsIn(rest, k) \in Nat /\ refcount[k] \in Int
                            /\ refcount[k] = variables'[k] + Cardinality(In(k))' + HoldsIn(rest, k) + (IF k = n THEN 1 ELSE 0)
                            /\ variables'[k] + Cardinality(In(k))' + HoldsIn(rest, k) \in Int
<1>1. gc.phase # "scan" BY NotPassing DEF IInv
<1>2. ASSUME NEW k \in used
      PROVE  /\ HoldsIn(rest, k) \in Nat /\ refcount[k] \in Nat
             /\ refcount[k] = variables'[k] + Cardinality(In(k))' + HoldsIn(rest, k) + (IF k = n THEN 1 ELSE 0)
             /\ variables'[k] + Cardinality(In(k))' + HoldsIn(rest, k) \in Nat
  <2>1. k \in Object BY DEF IInv, HeapTyped
  <2>2. variables'[k] \in 0 .. MaxVars BY <2>1 DEF Releasing
  <2>3. variables'[k] \in Nat BY <2>2, GCAssumption
  <2>4. Cardinality(In(k))' \in Nat /\ HoldsIn(rest, k) \in Nat
          /\ variables'[k] + Cardinality(In(k))' + HoldsIn(rest, k) = Total(k) - (IF k = n THEN 1 ELSE 0)
    BY DEF Releasing
  <2>5. refcount[k] = Total(k) /\ Total(k) \in Nat
    <3>1. refcount[k] = Total(k) BY <1>1 DEF IInv, Exact
    <3> QED BY <3>1, <2>1, Totals DEF IInv
  <2> DEFINE a == Cardinality(In(k))'
  <2>6. a \in Nat /\ variables'[k] + a + HoldsIn(rest, k) = Total(k) - (IF k = n THEN 1 ELSE 0) BY <2>4
  <2> HIDE DEF a
  <2>7. /\ refcount[k] = variables'[k] + a + HoldsIn(rest, k) + (IF k = n THEN 1 ELSE 0)
        /\ variables'[k] + a + HoldsIn(rest, k) \in Nat
    BY <2>3, <2>4, <2>5, <2>6
  <2> QED BY <2>4, <2>5, <2>7 DEF a
<1>3. n \in used BY DEF Releasing
<1>4. refcount[n] \in Nat /\ refcount[n] >= 1
  <2> DEFINE v == variables'[n] + Cardinality(In(n))' + HoldsIn(rest, n)
  <2>1. refcount[n] \in Nat /\ refcount[n] = v + 1 /\ v \in Nat BY <1>2, <1>3
  <2> HIDE DEF v
  <2> QED BY <2>1
<1> QED BY <1>2, <1>4

\* The three ways on without a collection.
LEMMA ReleaseDeletes ==
  ASSUME IInv, ~Top("collect"), NEW n, NEW rest, Releasing(n, rest),
         refcount[n] = 1, Lower(n), calls' = <<Call("del", n)>> \o rest, UNCHANGED <<tag, color, gc>>
  PROVE  Released(n)
<1> DEFINE c == Call("del", n)
<1>1. MayPush(c, rest) /\ c \in CallRec /\ c.op = "del" /\ c.obj = n /\ c = Call("del", n) BY ReleasingPush
<1> HIDE DEF c
<1>2. PushFacts(calls', c, rest)
  <2>1. rest \in Seq(CallRec) BY DEF Releasing
  <2>2. PushFacts(<<c>> \o rest, c, rest) BY <2>1, <1>1, PushFact
  <2> QED BY <2>2, <1>1
<1>3. n \in Object /\ refcount \in [Object -> Int] /\ used \subseteq Object BY DEF IInv, HeapTyped, Releasing
<1>4. refcount' \in [Object -> Int] /\ \A k \in Object : refcount'[k] = IF k = n THEN 0 ELSE refcount[k]
  BY <1>3 DEF Lower
<1>5. ASSUME NEW k \in used PROVE refcount'[k] = variables'[k] + Cardinality(In(k))' + HoldsIn(calls', k)
  <2> DEFINE v == variables'[k] + Cardinality(In(k))'
  <2>1. HoldsIn(calls', k) = HoldsIn(rest, k) + 0 /\ HoldsIn(rest, k) \in Nat
    <3>1. \A j : HoldsIn(rest, j) \in Nat /\ HoldsIn(calls', j) = HoldsIn(rest, j) + (IF c.obj = j /\ c.op # "del" THEN 1 ELSE 0)
      BY <1>2 DEF PushFacts
    <3> QED BY <3>1, <1>1
  <2>2. refcount[k] \in Int /\ refcount[k] = v + HoldsIn(rest, k) + (IF k = n THEN 1 ELSE 0) /\ v + HoldsIn(rest, k) \in Int
    BY ReleasingCount
  <2>3. refcount'[k] = IF k = n THEN refcount[k] - 1 ELSE refcount[k] BY <1>3, <1>4
  <2>4. HoldsIn(calls', k) = HoldsIn(rest, k) BY <2>1
  <2>5. refcount'[k] = v + HoldsIn(rest, k)
    <3> HIDE DEF v
    <3> QED BY <2>2, <2>3
  <2> QED BY <2>4, <2>5
<1>6. calls' \in Seq(CallRec) /\ Shape(calls') BY <1>1, <1>2 DEF PushFacts, Releasing
<1>7. Collects(calls') <=> gc'.phase # "idle"
  <2>1. Collects(calls) <=> gc.phase # "idle" BY NotPassing DEF IInv
  <2> QED BY <2>1, <1>1, <1>2 DEF PushFacts, Releasing
<1>8. Collects(calls) => Below(calls') = Below(calls) BY <1>2 DEF PushFacts, Releasing
<1>9. CallSet(calls') = CallSet(rest) \cup {c} BY <1>2 DEF PushFacts
<1>10. calls'[1].op = "del" BY <1>1, <1>2 DEF PushFacts
<1>11. n \in used /\ refcount'[n] = 0 BY <1>3, <1>4 DEF Releasing
<1> QED BY <1>1, <1>4, <1>5, <1>6, <1>7, <1>8, <1>9, <1>10, <1>11 DEF Released, Releasing, Top

LEMMA ReleaseGoesOn ==
  ASSUME IInv, ~Top("collect"), NEW n, NEW rest, Releasing(n, rest),
         Lower(n), calls' = rest, UNCHANGED gc,
         \/ tag[n] # "none" /\ UNCHANGED <<tag, color>>
         \/ tag[n] = "none" /\ gc_possible_root(n)
  PROVE  Released(n)
<1>1. n \in Object /\ refcount \in [Object -> Int] /\ used \subseteq Object BY DEF IInv, HeapTyped, Releasing
<1>2. refcount' \in [Object -> Int] /\ \A k \in Object : refcount'[k] = IF k = n THEN refcount[k] - 1 ELSE refcount[k]
  BY <1>1 DEF Lower
<1>3. ASSUME NEW k \in used PROVE refcount'[k] = variables'[k] + Cardinality(In(k))' + HoldsIn(calls', k)
  <2> DEFINE v == variables'[k] + Cardinality(In(k))'
  <2>1. refcount[k] \in Int /\ refcount[k] = v + HoldsIn(rest, k) + (IF k = n THEN 1 ELSE 0) /\ v + HoldsIn(rest, k) \in Int
    BY ReleasingCount
  <2>2. refcount'[k] = IF k = n THEN refcount[k] - 1 ELSE refcount[k] BY <1>1, <1>2
  <2>3. refcount'[k] = v + HoldsIn(rest, k)
    <3> HIDE DEF v
    <3> QED BY <2>1, <2>2
  <2> QED BY <2>3
<1>4. calls' \in Seq(CallRec) /\ Shape(calls') BY DEF Releasing
<1>5. Collects(calls') <=> gc'.phase # "idle"
  <2>1. Collects(calls) <=> gc.phase # "idle" BY NotPassing DEF IInv
  <2> QED BY <2>1 DEF Releasing
<1>6. Collects(calls) => Below(calls') = Below(calls) BY DEF Releasing
<1>7. tag'[n] # "none" /\ tag \in [Object -> {"none", "root", "garbage", "dtor"}]
  <2>1. tag \in [Object -> {"none", "root", "garbage", "dtor"}] BY DEF IInv, HeapTyped
  <2> QED BY <2>1, <1>1 DEF gc_possible_root
<1>8. Top("undtor")' => tag'[calls'[1].obj] # "none"
  <2> SUFFICES ASSUME calls' # <<>> /\ calls'[1].op = "undtor" PROVE tag'[calls'[1].obj] # "none" BY DEF Top
  <2>1. calls'[1].obj = n BY DEF Releasing
  <2> QED BY <2>1, <1>7
<1>9. \A c \in CallSet(calls') : c \in CallSet(calls) /\ c.op # "del" BY DEF Releasing
<1>10. \A c \in CallSet(calls) :
         c \in CallSet(calls') \/ (c.obj = n /\ c.op # "free" /\ (c.op = "gcfree" => Succ(n) = {}))
  BY DEF Releasing
<1> QED BY <1>2, <1>3, <1>4, <1>5, <1>6, <1>7, <1>8, <1>9, <1>10 DEF Released, Releasing

\* The collection that comes first.
LEMMA ReleaseCollects ==
  ASSUME IInv, ~Top("collect"), NEW n, NEW rest, Releasing(n, rest),
         MayLeak(n), gc.phase = "idle", calls' = <<Call("collect", "none"), Call("full", n)>> \o rest,
         gc' = [Idle EXCEPT !.phase = "mark"], UNCHANGED <<refcount, tag, color>>
  PROVE  Released(n)
<1> DEFINE c == Call("full", n)
           d == Call("collect", "none")
<1>1. MayPush(c, rest) /\ c \in CallRec /\ c.op = "full" /\ c.obj = n /\ c = Call("full", n) BY ReleasingPush
<1>2. d \in CallRec /\ d.op = "collect" /\ d.obj = "none" /\ d = Call("collect", "none") BY DEF Call, CallRec, Ops
<1> HIDE DEF c, d
<1>3. PICK t : PushFacts(t, c, rest) /\ PushFacts(calls', d, t)
  <2>1. rest \in Seq(CallRec) BY DEF Releasing
  <2>2. \E t : PushFacts(t, c, rest) /\ PushFacts(<<d, c>> \o rest, d, t) BY <2>1, <1>1, <1>2, TwoFact
  <2> QED BY <2>2, <1>1, <1>2
<1>4. ~Collects(calls) /\ ~Collects(rest) /\ ~Collects(t)
  <2>1. ~Collects(calls) BY NotPassing DEF IInv
  <2> QED BY <2>1, <1>1, <1>3 DEF PushFacts, Releasing
<1>5. Shape(t) /\ t # <<>> /\ t[1] = c /\ t \in Seq(CallRec) BY <1>1, <1>3 DEF PushFacts, Releasing
<1>6. \A e \in CallSet(t) : e.op = "free" => e.obj # "none"
  <2> SUFFICES ASSUME NEW e \in CallSet(t), e.op = "free" PROVE e.obj # "none" OBVIOUS
  <2>1. e \in CallSet(calls)
    <3>1. e \in CallSet(rest) BY <1>1, <1>3, <2>1 DEF PushFacts
    <3> QED BY <3>1 DEF Releasing
  <2> QED BY <2>1 DEF IInv, Stacked, CallFits
<1>7. MayPush(d, t) BY <1>1, <1>2, <1>4, <1>5, <1>6 DEF MayPush
<1>8. calls' \in Seq(CallRec) /\ Shape(calls') /\ calls'[1] = d /\ calls' # <<>> BY <1>3, <1>5, <1>7 DEF PushFacts
<1>9. n \in Object /\ refcount \in [Object -> Int] /\ n \in used BY DEF IInv, HeapTyped, Releasing
<1>10. ASSUME NEW k \in used PROVE refcount'[k] = variables'[k] + Cardinality(In(k))' + HoldsIn(calls', k)
  <2> DEFINE v == variables'[k] + Cardinality(In(k))'
  <2>1. refcount[k] \in Int /\ refcount[k] = v + HoldsIn(rest, k) + (IF k = n THEN 1 ELSE 0) /\ v + HoldsIn(rest, k) \in Int
    BY ReleasingCount
  <2>2. HoldsIn(calls', k) = HoldsIn(rest, k) + (IF k = n THEN 1 ELSE 0)
    <3>1. HoldsIn(t, k) \in Nat /\ HoldsIn(calls', k) = HoldsIn(t, k) + (IF d.obj = k /\ d.op # "del" THEN 1 ELSE 0)
      BY <1>3 DEF PushFacts
    <3>2. k # "none" BY GCAssumption DEF IInv, HeapTyped
    <3>3. HoldsIn(t, k) = HoldsIn(rest, k) + (IF c.obj = k /\ c.op # "del" THEN 1 ELSE 0)
      BY <1>3 DEF PushFacts
    <3>4. HoldsIn(calls', k) = HoldsIn(t, k) BY <3>1, <3>2, <1>2
    <3> QED BY <3>3, <3>4, <1>1
  <2>3. HoldsIn(rest, k) \in Nat BY ReleasingCount
  <2>4. v \in Int
    <3>1. variables'[k] \in 0 .. MaxVars BY DEF Releasing, IInv, HeapTyped
    <3> QED BY <3>1, GCAssumption DEF Releasing
  <2>5. refcount'[k] = refcount[k] OBVIOUS
  <2> HIDE DEF v
  <2>6. refcount'[k] = v + (HoldsIn(rest, k) + (IF k = n THEN 1 ELSE 0)) BY <2>1, <2>3, <2>4, <2>5
  <2>7. refcount'[k] = v + HoldsIn(calls', k) BY <2>2, <2>6
  <2> QED BY <2>7 DEF v
<1>11. CallSet(calls') = CallSet(rest) \cup {c, d} BY <1>3 DEF PushFacts
<1>12. Collects(calls') BY <1>2, <1>3 DEF PushFacts
<1>13. gc'.phase = "mark" BY DEF Idle
<1>14. tag[n] = "none" BY DEF MayLeak
<1>15. Top("collect")' BY <1>2, <1>8 DEF Top
<1>16. ~Top("undtor")' BY <1>2, <1>8 DEF Top
<1> QED BY <1>1, <1>2, <1>4, <1>8, <1>9, <1>10, <1>11, <1>12, <1>13, <1>14, <1>15, <1>16 DEF Released, Releasing

LEMMA LeakTag ==
  ASSUME IInv, ~Top("collect"), NEW n \in Object
  PROVE  MayLeak(n) <=> tag[n] = "none"
<1>1. color[n] = IF tag[n] \in {"root", "dtor"} THEN "purple" ELSE "black" BY NotPassing DEF IInv
<1> QED BY <1>1 DEF MayLeak

LEMMA ReleaseReleased ==
  ASSUME IInv, ~Top("collect"), NEW n, NEW rest, Releasing(n, rest), zend_object_release(n, rest)
  PROVE  Released(n)
<1>1. n \in Object BY DEF IInv, HeapTyped, Releasing
<1>2. MayLeak(n) <=> tag[n] = "none" BY <1>1, LeakTag
<1>3. CASE refcount[n] = 1 /\ Lower(n) /\ calls' = <<Call("del", n)>> \o rest /\ UNCHANGED <<tag, color, gc>>
  BY <1>3, ReleaseDeletes
<1>4. CASE ~MayLeak(n) /\ Lower(n) /\ calls' = rest /\ UNCHANGED <<tag, color, gc>>
  BY <1>2, <1>4, ReleaseGoesOn
<1>5. CASE MayLeak(n) /\ Lower(n) /\ gc_possible_root(n) /\ calls' = rest /\ UNCHANGED gc
  BY <1>2, <1>5, ReleaseGoesOn
<1>6. CASE /\ MayLeak(n) /\ gc.phase = "idle" /\ calls' = <<Call("collect", "none"), Call("full", n)>> \o rest
           /\ gc' = [Idle EXCEPT !.phase = "mark"] /\ UNCHANGED <<refcount, tag, color>>
  BY <1>6, ReleaseCollects
<1> QED BY <1>3, <1>4, <1>5, <1>6 DEF zend_object_release

\* What gives up a reference: a call that returns, a variable, a property.
LEMMA PopReleasing ==
  ASSUME IInv, calls # <<>>, calls[1].op \in {"dtor", "full", "gcdtor", "undtor", "gcfree"},
         calls[1].op = "gcfree" => Succ(calls[1].obj) = {}, UNCHANGED <<used, free_called, dtor_called, nulled, variables, prop>>
  PROVE  Releasing(calls[1].obj, Tail(calls))
<1> DEFINE c == calls[1]
           n == calls[1].obj
           s == Tail(calls)
<1>1. PushFacts(calls, c, s) /\ s \in Seq(CallRec) /\ c \in CallRec BY PopFact DEF IInv, Stacked
<1>2. c \in CallSet(calls) /\ CallFits(c) BY TopIn DEF IInv
<1>3. n = c.obj /\ c.op \in {"dtor", "full", "gcdtor", "undtor", "gcfree"} /\ (c.op = "gcfree" => Succ(n) = {}) OBVIOUS
<1> HIDE DEF c, n, s
<1>4. n \in used BY <1>2, <1>3 DEF CallFits
<1>5. Shape(s) /\ MayPush(c, s) BY <1>1 DEF PushFacts, IInv, Stacked
<1>6. \A d \in CallSet(s) : d \in CallSet(calls) /\ d.op # "del"
  <2>1. CallSet(calls) = CallSet(s) \cup {c} BY <1>1 DEF PushFacts
  <2>2. \A d \in CallSet(s) : d.op # "del" BY <1>1, NoDelBelow DEF IInv, Stacked
  <2> QED BY <2>1, <2>2
<1>7. \A d \in CallSet(calls) : d \in CallSet(s) \/ (d.obj = n /\ d.op # "free" /\ (d.op = "gcfree" => Succ(n) = {}))
  BY <1>1, <1>3 DEF PushFacts
<1>8. (Collects(s) <=> Collects(calls)) /\ (Collects(calls) => Below(s) = Below(calls))
  BY <1>1, <1>3 DEF PushFacts
<1>9. s # <<>> /\ s[1].op = "undtor" => s[1].obj = n BY <1>3, <1>5 DEF MayPush
<1>10. \A d \in CallSet(calls) : d.op = "free" => d.obj # n
  BY <1>1, <1>3, <1>5 DEF MayPush, PushFacts
<1>11. ASSUME NEW k \in used
       PROVE  /\ Cardinality(In(k))' \in Nat /\ HoldsIn(s, k) \in Nat
              /\ variables'[k] + Cardinality(In(k))' + HoldsIn(s, k) = Total(k) - (IF k = n THEN 1 ELSE 0)
  <2>1. In(k)' = In(k) BY DEF In
  <2>2. k \in Object BY DEF IInv, HeapTyped
  <2>3. variables[k] \in Nat /\ Cardinality(In(k)) \in Nat /\ HoldsIn(calls, k) \in Nat BY <2>2, Totals DEF IInv
  <2>4. HoldsIn(s, k) \in Nat /\ HoldsIn(calls, k) = HoldsIn(s, k) + (IF c.obj = k /\ c.op # "del" THEN 1 ELSE 0)
    BY <1>1 DEF PushFacts
  <2>5. HoldsIn(calls, k) = HoldsIn(s, k) + (IF k = n THEN 1 ELSE 0) BY <2>4, <1>3
  <2>6. Total(k) = variables[k] + Cardinality(In(k)) + HoldsIn(calls, k) BY DEF Total
  <2> QED BY <2>1, <2>3, <2>4, <2>5, <2>6
<1>12. prop' \subseteq prop /\ variables' = variables /\ variables \in [Object -> 0 .. MaxVars] /\ UNCHANGED objectVars
  BY DEF IInv, HeapTyped, objectVars
<1>13. \A k \in Object : variables'[k] <= variables[k] BY <1>12, GCAssumption
<1>14. Releasing(n, s) BY <1>1, <1>4, <1>5, <1>6, <1>7, <1>8, <1>9, <1>10, <1>11, <1>12, <1>13 DEF Releasing
<1> QED BY <1>14 DEF n, s

LEMMA RestIsCalls ==
  ASSUME IInv, ~Top("del"), ~Top("undtor"), NEW n
  PROVE  /\ calls \in Seq(CallRec) /\ Shape(calls)
         /\ \A c \in CallSet(calls) : c \in CallSet(calls) /\ c.op # "del"
         /\ (calls # <<>> /\ calls[1].op = "undtor" => calls[1].obj = n)
BY NoDel DEF IInv, Stacked, Top

LEMMA VariableReleasing ==
  ASSUME IInv, ~Top("del"), ~Top("undtor"), NEW n \in Object, variables[n] > 0,
         variables' = [variables EXCEPT ![n] = @ - 1], UNCHANGED <<objectVars, prop>>
  PROVE  Releasing(n, calls)
<1>1. n \in used BY DEF IInv, HeapTyped
<1>2. variables \in [Object -> 0 .. MaxVars] BY DEF IInv, HeapTyped
<1>3. /\ variables' \in [Object -> 0 .. MaxVars]
      /\ \A k \in Object : variables'[k] = IF k = n THEN variables[k] - 1 ELSE variables[k]
  <2>1. variables[n] - 1 \in 0 .. MaxVars BY <1>2, GCAssumption
  <2> QED BY <1>2, <2>1
<1>4. \A k \in Object : variables'[k] <= variables[k] /\ (variables[k] > 0 => variables'[k] > 0 \/ k = n)
  BY <1>2, <1>3, GCAssumption
<1>5. ASSUME NEW k \in used
      PROVE  /\ Cardinality(In(k))' \in Nat /\ HoldsIn(calls, k) \in Nat
             /\ variables'[k] + Cardinality(In(k))' + HoldsIn(calls, k) = Total(k) - (IF k = n THEN 1 ELSE 0)
  <2>1. In(k)' = In(k) BY DEF In
  <2>2. k \in Object BY DEF IInv, HeapTyped
  <2>3. variables[k] \in Nat /\ Cardinality(In(k)) \in Nat /\ HoldsIn(calls, k) \in Nat BY <2>2, Totals DEF IInv
  <2>4. Total(k) = variables[k] + Cardinality(In(k)) + HoldsIn(calls, k) BY DEF Total
  <2> QED BY <2>1, <2>2, <2>3, <2>4, <1>3
<1>6. \A c \in CallSet(calls) : c.op = "free" => c.obj # n BY <1>1 DEF IInv, Stacked, CallFits
<1>7. prop' \subseteq prop /\ \A m, k : <<m, k>> \in prop => <<m, k>> \in prop' \/ k = n OBVIOUS
<1>8. UNCHANGED objectVars OBVIOUS
<1> QED BY <1>1, <1>3, <1>4, <1>5, <1>6, <1>7, <1>8, RestIsCalls DEF Releasing

LEMMA PropertyReleasing ==
  ASSUME IInv, ~Top("del"), ~Top("undtor"), NEW m, NEW n, <<m, n>> \in prop,
         prop' = prop \ {<<m, n>>}, UNCHANGED <<objectVars, variables>>
  PROVE  Releasing(n, calls)
<1>1. n \in used /\ n \in Object /\ m \in used BY PropTyped DEF IInv
<1>2. variables' = variables /\ variables \in [Object -> 0 .. MaxVars] /\ UNCHANGED objectVars BY DEF IInv, HeapTyped
<1>3. \A k \in Object : variables'[k] <= variables[k] BY <1>2, GCAssumption
<1>4. prop' \subseteq prop /\ \A j, k : <<j, k>> \in prop => <<j, k>> \in prop' \/ k = n OBVIOUS
<1>5. ASSUME NEW k \in used
      PROVE  /\ Cardinality(In(k))' \in Nat /\ HoldsIn(calls, k) \in Nat
             /\ variables'[k] + Cardinality(In(k))' + HoldsIn(calls, k) = Total(k) - (IF k = n THEN 1 ELSE 0)
  <2>1. Cardinality(In(k))' = Cardinality(In(k)) - (IF k = n THEN 1 ELSE 0) BY InMinus DEF IInv
  <2>2. k \in Object BY DEF IInv, HeapTyped
  <2>3. variables[k] \in Nat /\ Cardinality(In(k)) \in Nat /\ HoldsIn(calls, k) \in Nat BY <2>2, Totals DEF IInv
  <2>4. Total(k) = variables[k] + Cardinality(In(k)) + HoldsIn(calls, k) BY DEF Total
  <2>5. k = n => Cardinality(In(k)) # 0 BY InFinite DEF IInv
  <2> QED BY <2>1, <2>2, <2>3, <2>4, <2>5, <1>2
<1>6. \A c \in CallSet(calls) : c.op = "free" => c.obj # n BY <1>1 DEF IInv, Stacked, CallFits
<1> QED BY <1>1, <1>2, <1>3, <1>4, <1>5, <1>6, RestIsCalls DEF Releasing

\* When what runs is not about garbage, the collection is not a quiet one.
LEMMA QuietNot ==
  ASSUME IInv, ~Top("collect"), calls = <<>> \/ calls[1].op \notin {"del", "free", "gcfree"},
         gc' = gc \/ gc'.phase = "mark"
  PROVE  Quiet'
<1>1. gc.phase # "collect" BY NotPassing DEF IInv
<1>2. ~(gc.phase = "destroy" /\ ~gc.dtors) BY QuietTop DEF IInv
<1> QED BY <1>1, <1>2 DEF Quiet

LEMMA KeptAndQuiet ==
  Kept' /\ Quiet' => IInv'
BY DEF Kept, IInv

LEMMA TopOps ==
  ASSUME NEW op, NEW o, Top(op), op # o
  PROVE  ~Top(o)
BY DEF Top

LEMMA UnsetKeeps ==
  ASSUME IInv, NEW n \in Object, Unset(n)
  PROVE  IInv'
<1>1. ~Top("collect") /\ ~Top("del") /\ ~Top("undtor") /\ (calls = <<>> \/ calls[1].op \notin {"del", "free", "gcfree"})
  BY DEF Unset, Running, Top
<1>2. Releasing(n, calls) BY <1>1, VariableReleasing DEF Unset
<1>3. Released(n) BY <1>1, <1>2, ReleaseReleased DEF Unset
<1>4. Kept' BY <1>1, <1>3, ReleasedKeeps
<1>5. gc' = gc \/ gc'.phase = "mark" BY <1>3 DEF Released, Idle
<1>6. Quiet' BY <1>1, <1>5, QuietNot
<1> QED BY <1>4, <1>6, KeptAndQuiet

LEMMA UnsetPropertyKeeps ==
  ASSUME IInv, NEW m \in Object, NEW n \in Object, UnsetProperty(m, n)
  PROVE  IInv'
<1>1. ~Top("collect") /\ ~Top("del") /\ ~Top("undtor") /\ (calls = <<>> \/ calls[1].op \notin {"del", "free", "gcfree"})
  BY DEF UnsetProperty, Running, Top
<1>2. Releasing(n, calls) BY <1>1, PropertyReleasing DEF UnsetProperty
<1>3. Released(n) BY <1>1, <1>2, ReleaseReleased DEF UnsetProperty
<1>4. Kept' BY <1>1, <1>3, ReleasedKeeps
<1>5. gc' = gc \/ gc'.phase = "mark" BY <1>3 DEF Released, Idle
<1>6. Quiet' BY <1>1, <1>5, QuietNot
<1> QED BY <1>4, <1>6, KeptAndQuiet

LEMMA DtorReturnsKeeps ==
  ASSUME IInv, DtorReturns
  PROVE  IInv'
<1>1. calls # <<>> /\ calls[1].op = "dtor" /\ ~Top("collect") BY DEF DtorReturns, Top
<1>2. UNCHANGED <<used, free_called, dtor_called, nulled, variables, prop>> BY DEF DtorReturns, objectVars, refVars
<1>3. Releasing(calls[1].obj, Tail(calls)) BY <1>1, <1>2, PopReleasing
<1>4. zend_object_release(calls[1].obj, Tail(calls)) BY DEF DtorReturns
<1>5. Released(calls[1].obj) BY <1>1, <1>3, <1>4, ReleaseReleased
<1>6. Kept' BY <1>1, <1>5, ReleasedKeeps
<1>7. gc' = gc \/ gc'.phase = "mark" BY <1>5 DEF Released, Idle
<1>8. Quiet' BY <1>1, <1>7, QuietNot
<1> QED BY <1>6, <1>8, KeptAndQuiet

LEMMA FullKeeps ==
  ASSUME IInv, Full
  PROVE  IInv'
<1>1. calls # <<>> /\ calls[1].op = "full" /\ ~Top("collect") BY DEF Full, Top
<1>2. UNCHANGED <<used, free_called, dtor_called, nulled, variables, prop>> /\ UNCHANGED gc
  BY DEF Full, objectVars, refVars
<1>3. Releasing(calls[1].obj, Tail(calls)) BY <1>1, <1>2, PopReleasing
<1>4. Released(calls[1].obj)
  <2>1. calls[1].obj \in Object BY <1>3 DEF Releasing, IInv, HeapTyped
  <2>2. MayLeak(calls[1].obj) <=> tag[calls[1].obj] = "none" BY <2>1, <1>1, LeakTag
  <2>3. refcount[calls[1].obj] \in Nat /\ refcount[calls[1].obj] >= 1 BY <1>1, <1>3, ReleasingCount
  <2>4. CASE refcount[calls[1].obj] = 1
    <3>1. Lower(calls[1].obj) /\ calls' = <<Call("del", calls[1].obj)>> \o Tail(calls) /\ UNCHANGED <<tag, color>>
      BY <2>4 DEF Full
    <3> QED BY <3>1, <2>4, <1>1, <1>2, <1>3, ReleaseDeletes
  <2>5. CASE refcount[calls[1].obj] > 1
    <3>1. Lower(calls[1].obj) /\ calls' = Tail(calls) BY <2>5 DEF Full
    <3>2. \/ tag[calls[1].obj] # "none" /\ UNCHANGED <<tag, color>>
          \/ tag[calls[1].obj] = "none" /\ gc_possible_root(calls[1].obj)
      BY <2>2, <2>5 DEF Full
    <3> QED BY <3>1, <3>2, <1>1, <1>2, <1>3, ReleaseGoesOn
  <2> QED BY <2>3, <2>4, <2>5
<1>5. Kept' BY <1>1, <1>4, ReleasedKeeps
<1>6. Quiet' BY <1>1, <1>2, QuietNot
<1> QED BY <1>5, <1>6, KeptAndQuiet

-----------------------------------------------------------------------------
(* What the program gains.                                                 *)

\* A step that makes a reference to n.
Gained(n) ==
  /\ n \in Object /\ used' = used \cup {n}
  /\ UNCHANGED <<dtor_called, free_called, nulled, tag, color, calls, gc>>
  /\ tag[n] # "garbage"
  /\ \A c \in CallSet(calls) : c.op \in {"free", "del"} => c.obj # n
  /\ variables' \in [Object -> 0 .. MaxVars] /\ \A k \in Object : k # n => variables'[k] = variables[k]
  /\ \A k \in Object : variables[k] > 0 => variables'[k] > 0
  /\ prop' \subseteq used' \X used' /\ prop \subseteq prop'
  /\ \A m, k : <<m, k>> \in prop' => <<m, k>> \in prop \/ (k = n /\ m \notin nulled)
  /\ refcount' \in [Object -> Int] /\ \A k \in Object : k # n => refcount'[k] = refcount[k]
  /\ \A k \in used' : refcount'[k] = variables'[k] + Cardinality(In(k))' + HoldsIn(calls, k)
  /\ n \in used \/ variables'[n] > 0

LEMMA GainedHeap ==
  ASSUME IInv, NEW n, Gained(n)
  PROVE  HeapTyped'
<1>1. HeapTyped BY DEF IInv
<1>2. used' \subseteq Object BY <1>1 DEF HeapTyped, Gained
<1>3. \A k \in Object \ used' : variables'[k] = 0 /\ refcount'[k] = 0 /\ tag'[k] = "none"
  BY <1>1 DEF HeapTyped, Gained
<1>4. dtor_called' \subseteq used' /\ free_called' \subseteq used' /\ nulled' \subseteq free_called'
  BY <1>1 DEF HeapTyped, Gained
<1>5. tag' \in [Object -> {"none", "root", "garbage", "dtor"}] /\ color' \in [Object -> {"black", "white", "grey", "purple"}]
  BY <1>1 DEF HeapTyped, Gained
<1> QED BY <1>2, <1>3, <1>4, <1>5 DEF HeapTyped, Gained

LEMMA GainedKeeps ==
  ASSUME IInv, ~Top("collect"), NEW n, Gained(n)
  PROVE  Kept'
<1>1. HeapTyped' BY GainedHeap
<1>2. GCTyped' BY DEF IInv, GCTyped, Gained
<1>3. gc.phase # "scan" /\ gc' = gc BY NotPassing DEF IInv, Gained
<1>4. Stacked'
  <2>1. calls' = calls /\ tag' = tag BY DEF Gained
  <2>2. ASSUME NEW c \in CallSet(calls) PROVE CallFits(c)'
    <3>1. CallFits(c) BY DEF IInv, Stacked
    <3>2. c.obj \in used' \cup {"none"} BY <3>1 DEF CallFits, Gained
    <3>3. c.op = "del" => refcount'[c.obj] = 0
      <4> SUFFICES ASSUME c.op = "del" PROVE refcount'[c.obj] = 0 OBVIOUS
      <4>1. c.obj \in Object /\ c.obj # n /\ refcount[c.obj] = 0 BY <3>1 DEF CallFits, Gained, IInv, HeapTyped
      <4> QED BY <4>1 DEF Gained
    <3>4. c.op = "free" => variables'[c.obj] = 0 /\ \A m \in used' : <<m, c.obj>> \notin prop'
      <4> SUFFICES ASSUME c.op = "free" PROVE variables'[c.obj] = 0 /\ \A m \in used' : <<m, c.obj>> \notin prop' OBVIOUS
      <4>1. c.obj \in Object /\ c.obj # n /\ variables[c.obj] = 0 /\ \A m \in used : <<m, c.obj>> \notin prop
        BY <3>1 DEF CallFits, Gained, IInv, HeapTyped
      <4>2. \A m : <<m, c.obj>> \in prop => m \in used BY PropTyped DEF IInv
      <4> QED BY <4>1, <4>2 DEF Gained
    <3> QED BY <3>1, <3>2, <3>3, <3>4, <2>1 DEF CallFits, Gained
  <2>3. Top("undtor")' => tag'[calls'[1].obj] # "none" BY <2>1 DEF Top, IInv, Stacked
  <2> QED BY <2>1, <2>2, <2>3 DEF IInv, Stacked
<1>5. Exact' BY <1>3 DEF Exact, Total, Gained
<1>6. Garbage' = Garbage /\ Tagged("dtor")' = Tagged("dtor") BY DEF Garbage, Tagged, Gained
<1>7. Phased'
  <2>1. calls' = calls /\ Top("collect")' = Top("collect") BY DEF Gained, Top
  <2> QED BY <1>6, <2>1 DEF Phased, IInv, Gained
<1>8. Isolated'
  <2> SUFFICES ASSUME NEW g \in Garbage
               PROVE  /\ variables'[g] = 0 /\ \A m \in used' : <<m, g>> \in prop' => m \in Garbage
                      /\ \A c \in CallSet(calls) :
                           c.obj = g => c.op \in {"del", "free", "gcfree"} /\ c \notin Below(calls)
    BY <1>6 DEF Isolated, Gained
  <2>1. g \in Object /\ g # n BY DEF Garbage, Tagged, Gained
  <2>2. variables'[g] = 0 BY <2>1 DEF Gained, Isolated, IInv
  <2>3. ASSUME NEW m \in used', <<m, g>> \in prop' PROVE m \in Garbage
    <3>1. <<m, g>> \in prop BY <2>1, <2>3 DEF Gained
    <3>2. m \in used BY <3>1, PropTyped DEF IInv
    <3> QED BY <3>1, <3>2 DEF Isolated, IInv
  <2> QED BY <2>2, <2>3 DEF Isolated, IInv
<1>9. Freed'
  <2>1. ASSUME NEW k \in nulled PROVE Succ(k)' \subseteq Succ(k)
    <3>1. (\A j, m : m \in Succ(j) <=> <<j, m>> \in prop)' BY <1>1, InSuccNext
    <3>2. \A j, m : m \in Succ(j) <=> <<j, m>> \in prop BY InSucc DEF IInv
    <3> QED BY <3>1, <3>2, <2>1 DEF Gained
  <2>2. UNCHANGED <<tag, calls, free_called, nulled>> BY DEF Gained
  <2> QED BY <2>1, <2>2 DEF Freed, IInv
<1>10. Rooted'
  <2>1. (\A k : k \in Sources <=> \/ k \in Object /\ variables[k] > 0
                                  \/ \E c \in CallSet(calls) : c.obj = k
                                  \/ \E m \in free_called : <<m, k>> \in prop
                                  \/ k \in Object /\ tag[k] # "none")'
    BY <1>1, InSourcesNext
  <2>2. ASSUME NEW k \in Sources PROVE k \in Sources'
    <3>1. \/ k \in Object /\ variables[k] > 0
          \/ \E c \in CallSet(calls) : c.obj = k
          \/ \E m \in free_called : <<m, k>> \in prop
          \/ k \in Object /\ tag[k] # "none"
      BY InSources DEF IInv
    <3> QED BY <3>1, <2>1 DEF Gained
  <2>3. n \notin used => n \in Sources' BY <2>1 DEF Gained
  <2>4. \A k \in used' : k \notin used => k \in Sources' BY <2>3 DEF Gained
  <2>5. ASSUME NEW m \in used, NEW k \in Visited(m) PROVE k \in Visited(m)'
    <3>1. m \notin free_called /\ <<m, k>> \in prop BY InVisited DEF IInv
    <3>2. (\A j, l : l \in Visited(j) <=> j \notin free_called /\ <<j, l>> \in prop)' BY <1>1, InVisitedNext
    <3> QED BY <3>1, <3>2 DEF Gained
  <2>6. used \subseteq Reach(Sources) /\ \A m \in used : m \in used' BY DEF Rooted, IInv, Gained
  <2>7. used' \subseteq Reach(Sources)' BY <1>1, <2>2, <2>4, <2>5, <2>6, RootedKept DEF IInv
  <2> QED BY <1>3, <2>7 DEF Rooted
<1>11. Scanned' BY <1>3 DEF Scanned
<1>12. Waiting'
  <2>1. calls' = calls BY DEF Gained
  <2> QED BY <2>1, <1>6 DEF Waiting, IInv
<1> QED BY <1>1, <1>2, <1>4, <1>5, <1>7, <1>8, <1>9, <1>10, <1>11, <1>12 DEF Kept

LEMMA GainedQuiet ==
  ASSUME IInv, Running, NEW n, Gained(n)
  PROVE  IInv'
<1>1. ~Top("collect") /\ ~Top("del") /\ (calls = <<>> \/ calls[1].op \notin {"del", "free", "gcfree"})
  BY DEF Running, Top
<1>2. gc' = gc BY DEF Gained
<1>3. Quiet' BY <1>1, <1>2, QuietNot
<1> QED BY <1>1, <1>3, GainedKeeps, KeptAndQuiet

LEMMA NoTotal ==
  ASSUME IInv, NEW n \in Object, n \notin used
  PROVE  /\ Cardinality(In(n)) = 0 /\ HoldsIn(calls, n) = 0 /\ tag[n] = "none"
         /\ \A c \in CallSet(calls) : c.obj # n
<1>1. \A m : <<m, n>> \notin prop BY PropTyped DEF IInv
<1>2. \A c \in CallSet(calls) : c.obj # n
  <2> SUFFICES ASSUME NEW c \in CallSet(calls) PROVE c.obj # n OBVIOUS
  <2>1. CallFits(c) BY DEF IInv, Stacked
  <2> QED BY <2>1, GCAssumption DEF CallFits
<1>3. HoldsIn(calls, n) = 0 BY <1>2, HeldOnce DEF IInv, Stacked
<1>4. tag[n] = "none" BY DEF IInv, HeapTyped
<1>5. Cardinality(In(n)) = 0 BY <1>1, InFinite DEF IInv
<1> QED BY <1>2, <1>3, <1>4, <1>5

\* Outside of the scan the counters are right.
LEMMA Counts ==
  ASSUME IInv, gc.phase # "scan", NEW k \in used
  PROVE  /\ refcount[k] = variables[k] + Cardinality(In(k)) + HoldsIn(calls, k)
         /\ variables[k] \in Nat /\ Cardinality(In(k)) \in Nat /\ HoldsIn(calls, k) \in Nat
<1>1. k \in Object BY DEF IInv, HeapTyped
<1>2. refcount[k] = Total(k) BY DEF IInv, Exact
<1> QED BY <1>1, <1>2, Totals DEF Total, IInv

LEMMA NewKeeps ==
  ASSUME IInv, NEW n \in Object, New(n)
  PROVE  IInv'
<1>1. gc.phase # "scan"
  <2>1. ~Top("collect") BY DEF New, Running, Top
  <2> QED BY <2>1, NotPassing DEF IInv
<1>2. variables \in [Object -> 0 .. MaxVars] /\ refcount \in [Object -> Int] /\ prop \subseteq used \X used
  BY DEF IInv, HeapTyped
<1>3. variables' \in [Object -> 0 .. MaxVars] /\ \A k \in Object : variables'[k] = IF k = n THEN 1 ELSE variables[k]
  BY <1>2, GCAssumption DEF New
<1>4. refcount' \in [Object -> Int] /\ \A k \in Object : refcount'[k] = IF k = n THEN 1 ELSE refcount[k]
  BY <1>2 DEF New
<1>5. \A k : In(k)' = In(k) BY DEF In, New
<1>6. ASSUME NEW k \in used' PROVE refcount'[k] = variables'[k] + Cardinality(In(k))' + HoldsIn(calls, k)
  <2>1. CASE k = n
    <3>1. Cardinality(In(n)) = 0 /\ HoldsIn(calls, n) = 0 BY NoTotal DEF New
    <3> QED BY <2>1, <3>1, <1>3, <1>4, <1>5
  <2>2. CASE k # n
    <3>1. k \in used /\ k \in Object BY <2>2 DEF New, IInv, HeapTyped
    <3> QED BY <3>1, <2>2, <1>1, <1>3, <1>4, <1>5, Counts
  <2> QED BY <2>1, <2>2
<1>7. tag[n] # "garbage" /\ \A c \in CallSet(calls) : c.obj # n BY NoTotal DEF New
<1>8. Gained(n) BY <1>2, <1>3, <1>4, <1>6, <1>7 DEF Gained, New
<1> QED BY <1>8, GainedQuiet DEF New

LEMMA ReachableFits ==
  ASSUME IInv, Running, NEW n \in Reachable
  PROVE  /\ n \in used /\ n \in Object /\ n \notin nulled /\ tag[n] # "garbage"
         /\ \A c \in CallSet(calls) : c.op \in {"free", "del"} => c.obj # n
<1>1. n \in used /\ n \in Object /\ n \notin nulled /\ n \notin free_called /\ tag[n] # "garbage"
  BY ReachableAlive DEF IInv
<1>2. ~Top("del") BY DEF Running, Top
<1>3. \A c \in CallSet(calls) : c.op # "del" BY <1>2, NoDel DEF IInv
<1>4. \A c \in CallSet(calls) : c.op = "free" => c.obj \in free_called BY DEF IInv, Stacked, CallFits
<1> QED BY <1>1, <1>3, <1>4

LEMMA CopyKeeps ==
  ASSUME IInv, NEW n \in Object, Copy(n)
  PROVE  IInv'
<1>1. gc.phase # "scan" /\ Running
  <2>1. ~Top("collect") BY DEF Copy, Running, Top
  <2> QED BY <2>1, NotPassing DEF IInv, Copy
<1>2. variables \in [Object -> 0 .. MaxVars] /\ refcount \in [Object -> Int] /\ prop \subseteq used \X used
  BY DEF IInv, HeapTyped
<1>3. n \in Reachable /\ variables[n] < MaxVars BY DEF Copy
<1>4. variables' \in [Object -> 0 .. MaxVars] /\ \A k \in Object : variables'[k] = IF k = n THEN variables[k] + 1 ELSE variables[k]
  <2>1. variables[n] + 1 \in 0 .. MaxVars BY <1>2, <1>3, GCAssumption
  <2> QED BY <1>2, <2>1 DEF Copy
<1>5. refcount' \in [Object -> Int] /\ \A k \in Object : refcount'[k] = IF k = n THEN refcount[k] + 1 ELSE refcount[k]
  BY <1>2 DEF Copy
<1>6. \A k : In(k)' = In(k) BY DEF In, Copy
<1>7. used' = used BY DEF Copy, objectVars
<1>8. ASSUME NEW k \in used' PROVE refcount'[k] = variables'[k] + Cardinality(In(k))' + HoldsIn(calls, k)
  <2>1. k \in used /\ k \in Object BY <1>7 DEF IInv, HeapTyped
  <2> QED BY <2>1, <1>1, <1>4, <1>5, <1>6, Counts
<1>9. n \in used /\ tag[n] # "garbage" /\ \A c \in CallSet(calls) : c.op \in {"free", "del"} => c.obj # n
  BY <1>1, <1>3, ReachableFits
<1>10. \A k \in Object : variables[k] > 0 => variables'[k] > 0 BY <1>2, <1>4, GCAssumption
<1>11. UNCHANGED <<dtor_called, free_called, nulled, tag, color, calls, gc, prop>> BY DEF Copy, objectVars
<1>12. Gained(n) BY <1>2, <1>4, <1>5, <1>7, <1>8, <1>9, <1>10, <1>11 DEF Gained
<1> QED BY <1>1, <1>12, GainedQuiet

LEMMA SetPropertyKeeps ==
  ASSUME IInv, NEW m \in Object, NEW n \in Object, SetProperty(m, n)
  PROVE  IInv'
<1>1. gc.phase # "scan" /\ Running
  <2>1. ~Top("collect") BY DEF SetProperty, Running, Top
  <2> QED BY <2>1, NotPassing DEF IInv, SetProperty
<1>2. variables \in [Object -> 0 .. MaxVars] /\ refcount \in [Object -> Int] /\ prop \subseteq used \X used
  BY DEF IInv, HeapTyped
<1>3. m \in Reachable /\ n \in Reachable /\ <<m, n>> \notin prop /\ prop' = prop \cup {<<m, n>>} BY DEF SetProperty
<1>4. refcount' \in [Object -> Int] /\ \A k \in Object : refcount'[k] = IF k = n THEN refcount[k] + 1 ELSE refcount[k]
  BY <1>2 DEF SetProperty
<1>5. \A k : Cardinality(In(k))' = Cardinality(In(k)) + (IF k = n THEN 1 ELSE 0) BY <1>3, InPlus DEF IInv
<1>6. UNCHANGED <<used, variables, dtor_called, free_called, nulled, tag, color, calls, gc>> BY DEF SetProperty, objectVars
<1>7. ASSUME NEW k \in used' PROVE refcount'[k] = variables'[k] + Cardinality(In(k))' + HoldsIn(calls, k)
  <2>1. k \in used /\ k \in Object BY <1>6 DEF IInv, HeapTyped
  <2> QED BY <2>1, <1>1, <1>4, <1>5, <1>6, Counts
<1>8. /\ n \in used /\ tag[n] # "garbage" /\ m \in used /\ m \notin nulled
      /\ \A c \in CallSet(calls) : c.op \in {"free", "del"} => c.obj # n
  BY <1>1, <1>3, ReachableFits
<1>9. Gained(n) BY <1>2, <1>3, <1>4, <1>6, <1>7, <1>8 DEF Gained
<1> QED BY <1>1, <1>9, GainedQuiet

-----------------------------------------------------------------------------
(* A collection without destructors goes on.                               *)

LEMMA InGarbage ==
  \A n : n \in Garbage <=> n \in Object /\ tag[n] = "garbage"
BY DEF Garbage, Tagged

LEMMA InGarbageNext ==
  (\A n : n \in Garbage <=> n \in Object /\ tag[n] = "garbage")'
BY InGarbage, PTL

LEMMA OutsideApart ==
  HeapTyped /\ Isolated => \A n \in Reach(Outside) : n \notin Garbage
<1> SUFFICES ASSUME HeapTyped, Isolated PROVE \A n \in Reach(Outside) : n \notin Garbage OBVIOUS
<1> DEFINE X == (Outside \cup used) \ Garbage
<1>1. Outside \subseteq X BY DEF Outside
<1>2. ASSUME NEW n \in X, NEW m \in Visited(n) PROVE m \in X
  <2>1. n \in used /\ m \in used /\ <<n, m>> \in prop BY InVisited, PropTyped
  <2> QED BY <2>1 DEF Isolated
<1>3. Reach(Outside) \subseteq X BY <1>1, <1>2, ReachWithin
<1> QED BY <1>3

LEMMA OutsideKept ==
  ASSUME HeapTyped, HeapTyped', Isolated, used \subseteq Garbage \cup Reach(Outside), used' \subseteq used,
         \A n \in used' : n \in Garbage => n \in Garbage',
         \A m \in used : m \notin Garbage => \A n \in Visited(m) : n \in Visited(m)',
         \A n \in Outside : n \in Outside'
  PROVE  used' \subseteq (Garbage \cup Reach(Outside))'
<1> DEFINE R == Reach(Outside)'
<1>1. PICK K : K = R OBVIOUS
<1>2. Outside' \subseteq K /\ \A n \in K : \A m \in Visited(n)' : m \in K
  <2>1. Outside' \subseteq R
    <3>1. Outside' \subseteq Reach(Outside)' BY ReachFactsNext
    <3> QED BY <3>1
  <2>2. \A n \in R : \A m \in Visited(n)' : m \in R BY ReachFactsNext
  <2> QED BY <2>1, <2>2, <1>1
<1> HIDE DEF R
<1> DEFINE X == K \ Garbage
<1>3. Outside \subseteq X
  <2>1. \A n \in Outside : n \notin Garbage BY DEF Outside
  <2> QED BY <2>1, <1>2
<1>4. ASSUME NEW m \in X, NEW n \in Visited(m) PROVE n \in X
  <2>1. m \in used /\ n \in used /\ <<m, n>> \in prop BY InVisited, PropTyped
  <2>2. n \notin Garbage BY <2>1 DEF Isolated
  <2>3. n \in Visited(m)' BY <2>1
  <2> QED BY <2>2, <2>3, <1>2
<1>5. Reach(Outside) \subseteq X BY <1>3, <1>4, ReachWithin
<1>6. \A n \in used' : n \in Garbage' \/ n \in K BY <1>5
<1> QED BY <1>6, <1>1 DEF R

LEMMA QuietStep ==
  ASSUME IInv, HeapTyped', gc.phase = "destroy", ~gc.dtors, gc' = gc, variables' = variables, used' \subseteq used,
         \A k \in Object : tag'[k] = "garbage" => tag[k] = "garbage",
         \A k \in used' : tag[k] = "garbage" => tag'[k] = "garbage",
         \A c \in CallSet(calls) : c \in CallSet(calls') \/ c.obj \in Garbage,
         \A m, k : <<m, k>> \in prop => <<m, k>> \in prop' \/ m \in Garbage,
         \A m \in used : m \notin Garbage => (m \in free_called <=> m \in free_called'),
         \A c \in Above(calls') : c.obj \in Garbage'
  PROVE  Quiet'
<1>1. used \subseteq Garbage \cup Reach(Outside) BY DEF IInv, Quiet
<1>2. \A k : k \in Garbage' <=> k \in Object /\ tag'[k] = "garbage" BY InGarbageNext
<1>3. \A k \in used' : k \in Garbage => k \in Garbage' BY <1>2, InGarbage
<1>4. ASSUME NEW m \in used, m \notin Garbage, NEW k \in Visited(m) PROVE k \in Visited(m)'
  <2>1. m \notin free_called /\ <<m, k>> \in prop BY InVisited DEF IInv
  <2>2. (\A j, l : l \in Visited(j) <=> j \notin free_called /\ <<j, l>> \in prop)' BY InVisitedNext
  <2> QED BY <2>1, <2>2, <1>4
<1>5. ASSUME NEW k \in Outside PROVE k \in Outside'
  <2>1. /\ ~(k \in Object /\ tag[k] = "garbage")
        /\ \/ k \in Object /\ variables[k] > 0
           \/ \E c \in CallSet(calls) : c.obj = k
           \/ \E m \in free_called : tag[m] # "garbage" /\ <<m, k>> \in prop
    BY InOutside DEF IInv
  <2>2. (\A j : j \in Outside <=> /\ ~(j \in Object /\ tag[j] = "garbage")
                                  /\ \/ j \in Object /\ variables[j] > 0
                                     \/ \E c \in CallSet(calls) : c.obj = j
                                     \/ \E m \in free_called : tag[m] # "garbage" /\ <<m, j>> \in prop)'
    BY InOutsideNext
  <2>3. ~(k \in Object /\ tag'[k] = "garbage") BY <2>1
  <2>4. CASE k \in Object /\ variables[k] > 0 BY <2>2, <2>3, <2>4
  <2>5. CASE \E c \in CallSet(calls) : c.obj = k
    <3>1. PICK c \in CallSet(calls) : c.obj = k BY <2>5
    <3>2. c.obj \notin Garbage BY <3>1, <2>1, InGarbage
    <3>3. c \in CallSet(calls') BY <3>2
    <3> QED BY <3>1, <3>3, <2>2, <2>3
  <2>6. CASE \E m \in free_called : tag[m] # "garbage" /\ <<m, k>> \in prop
    <3>1. PICK m \in free_called : tag[m] # "garbage" /\ <<m, k>> \in prop BY <2>6
    <3>2. m \in used /\ m \in Object /\ m \notin Garbage BY <3>1, InGarbage DEF IInv, HeapTyped
    <3>3. m \in free_called' /\ <<m, k>> \in prop' /\ tag'[m] # "garbage" BY <3>1, <3>2
    <3> QED BY <3>3, <2>2, <2>3
  <2> QED BY <2>1, <2>4, <2>5, <2>6
<1>6. used' \subseteq (Garbage \cup Reach(Outside))' BY <1>1, <1>3, <1>4, <1>5, OutsideKept DEF IInv
<1> QED BY <1>6 DEF Quiet

\* Of a closure, what is not in the set is found from the closure.
LEMMA ReachFrom ==
  HeapTyped => \A S : \A n \in Reach(S) : n \in S \/ \E m \in Reach(S) : n \in Visited(m)
<1> SUFFICES ASSUME HeapTyped, NEW S, NEW n \in Reach(S), n \notin S PROVE \E m \in Reach(S) : n \in Visited(m)
  OBVIOUS
<1> DEFINE X == {x \in Reach(S) : x \in S \/ \E m \in Reach(S) : x \in Visited(m)}
<1>1. S \subseteq X BY ReachFacts
<1>2. \A k \in X : \A m \in Visited(k) : m \in X BY ReachFacts
<1>3. Reach(S) \subseteq X BY <1>1, <1>2, ReachWithin
<1> QED BY <1>3

LEMMA TwoIn ==
  ASSUME HeapTyped, NEW a, NEW b, NEW n, <<a, n>> \in prop, <<b, n>> \in prop, a # b
  PROVE  Cardinality(In(n)) >= 2
<1>1. IsFiniteSet(In(n)) /\ Cardinality(In(n)) \in Nat BY InFinite
<1>2. <<a, n>>[2] = n /\ <<b, n>>[2] = n /\ <<a, n>> # <<b, n>> OBVIOUS
<1>3. <<a, n>> \in In(n) /\ <<b, n>> \in In(n) \ {<<a, n>>} BY <1>2 DEF In
<1>4. IsFiniteSet(In(n) \ {<<a, n>>}) /\ Cardinality(In(n) \ {<<a, n>>}) = Cardinality(In(n)) - 1
  BY <1>1, <1>3, FS_RemoveElement
<1>5. Cardinality(In(n) \ {<<a, n>>}) # 0
  <2>1. In(n) \ {<<a, n>>} # {} BY <1>3
  <2> QED BY <2>1, <1>4, FS_EmptySet
<1> QED BY <1>1, <1>4, <1>5, FS_CardinalityType

\* What garbage refers to is garbage, or something else refers to it.
LEMMA OutsideHeld ==
  ASSUME IInv, gc.phase = "destroy", ~gc.dtors, NEW x \in Garbage, NEW n, <<x, n>> \in prop, refcount[n] = 1
  PROVE  n \in Garbage
<1> SUFFICES ASSUME n \notin Garbage PROVE FALSE OBVIOUS
<1>1. n \in used /\ n \in Object /\ x \in used BY PropTyped DEF IInv
<1>2. /\ refcount[n] = variables[n] + Cardinality(In(n)) + HoldsIn(calls, n)
      /\ variables[n] \in Nat /\ Cardinality(In(n)) \in Nat /\ HoldsIn(calls, n) \in Nat
  BY <1>1, Counts
<1>3. Cardinality(In(n)) # 0 BY InFinite DEF IInv
<1>4. n \in Reach(Outside) BY <1>1 DEF IInv, Quiet
<1>5. ~\E k : k \notin Garbage /\ <<k, n>> \in prop
  <2> SUFFICES ASSUME NEW k, k \notin Garbage, <<k, n>> \in prop PROVE FALSE OBVIOUS
  <2>1. Cardinality(In(n)) >= 2 BY TwoIn DEF IInv
  <2> QED BY <2>1, <1>2
<1>6. n \in Outside
  <2>1. n \in Outside \/ \E m \in Reach(Outside) : n \in Visited(m) BY <1>4, ReachFrom DEF IInv
  <2>2. ASSUME NEW m \in Reach(Outside), n \in Visited(m) PROVE FALSE
    <3>1. m \notin Garbage /\ <<m, n>> \in prop BY <2>2, OutsideApart, InVisited DEF IInv
    <3> QED BY <3>1, <1>5
  <2> QED BY <2>1, <2>2
<1>7. \/ n \in Object /\ variables[n] > 0
      \/ \E c \in CallSet(calls) : c.obj = n
      \/ \E m \in free_called : tag[m] # "garbage" /\ <<m, n>> \in prop
  BY <1>6, InOutside DEF IInv
<1>8. CASE variables[n] > 0 BY <1>2, <1>3, <1>8
<1>9. CASE \E c \in CallSet(calls) : c.obj = n
  <2>1. PICK c \in CallSet(calls) : c.obj = n BY <1>9
  <2>2. c.op # "del" BY <2>1 DEF IInv, Stacked, CallFits
  <2>3. HoldsIn(calls, n) >= 1 BY <2>1, <2>2, HoldsMember DEF IInv, Stacked
  <2> QED BY <2>3, <1>2, <1>3
<1>10. CASE \E m \in free_called : tag[m] # "garbage" /\ <<m, n>> \in prop
  <2>1. PICK m \in free_called : tag[m] # "garbage" /\ <<m, n>> \in prop BY <1>10
  <2>2. m \notin Garbage BY <2>1, InGarbage
  <2> QED BY <2>1, <2>2, <1>5
<1> QED BY <1>7, <1>8, <1>9, <1>10

-----------------------------------------------------------------------------
(* Deletions.                                                              *)

\* The calls of a collection without destructors that returns one of them.
LEMMA QuietPop ==
  ASSUME IInv, HeapTyped', ~Top("collect"), gc' = gc, calls # <<>>, calls' = Tail(calls),
         variables' = variables, used' \subseteq used,
         \A k \in Object : tag'[k] = "garbage" => tag[k] = "garbage",
         \A k \in used' : tag[k] = "garbage" => tag'[k] = "garbage",
         \A m, k : <<m, k>> \in prop => <<m, k>> \in prop' \/ m \in Garbage,
         \A m \in used : m \notin Garbage => (m \in free_called <=> m \in free_called'),
         \A c \in CallSet(calls') : c.obj \in Garbage => c.obj \in used'
  PROVE  gc.phase = "destroy" /\ ~gc.dtors => Quiet'
<1> SUFFICES ASSUME gc.phase = "destroy", ~gc.dtors PROVE Quiet' OBVIOUS
<1>1. calls[1].obj \in Garbage /\ \A c \in Above(calls) : c.obj \in Garbage BY QuietTop DEF IInv
<1>2. PushFacts(calls, calls[1], calls') BY PopFact DEF IInv, Stacked
<1>3. CallSet(calls) = CallSet(calls') \cup {calls[1]} BY <1>2 DEF PushFacts
<1>4. calls[1].op # "collect" BY DEF Top
<1>5. Collects(calls) BY DEF IInv, Phased
<1>6. Above(calls') \subseteq Above(calls) BY <1>2, <1>4, <1>5 DEF PushFacts
<1>7. ASSUME NEW c \in Above(calls') PROVE c.obj \in Garbage'
  <2>1. c \in CallSet(calls') BY DEF Above, CallSet
  <2>2. c.obj \in Garbage BY <1>1, <1>6
  <2>3. c.obj \in used' BY <2>1, <2>2
  <2> QED BY <2>2, <2>3, InGarbage, InGarbageNext
<1> QED BY <1>1, <1>3, <1>7, QuietStep

LEMMA QuietRest ==
  ASSUME IInv, ~Top("collect"), gc' = gc, gc.phase = "destroy" /\ ~gc.dtors => Quiet'
  PROVE  Quiet'
<1>1. gc.phase # "collect" BY NotPassing DEF IInv
<1> QED BY <1>1 DEF Quiet

LEMMA DelNulledKeeps ==
  ASSUME IInv, DelNulled
  PROVE  IInv'
<1> DEFINE c == calls[1]
           n == calls[1].obj
           s == Tail(calls)
<1>1. calls # <<>> /\ c.op = "del" /\ n \in nulled /\ calls' = s /\ ~Top("collect") BY DEF DelNulled, Top
<1>2. PushFacts(calls, c, s) BY <1>1, PopFact DEF IInv, Stacked
<1>3. /\ UNCHANGED <<used, free_called, dtor_called, nulled, variables, prop, refcount, color, tag, gc>>
      /\ UNCHANGED objectVars
  BY DEF DelNulled, objectVars, refVars
<1>4. n = c.obj OBVIOUS
<1> HIDE DEF c, n, s
<1>5. Shape(s) /\ MayPush(c, s) /\ s \in Seq(CallRec) BY <1>2 DEF PushFacts, IInv, Stacked
<1>6. n \in used /\ tag[n] = "garbage" /\ n \in Object BY <1>1 DEF IInv, HeapTyped, Freed
<1>7. \A d \in CallSet(s) : d \in CallSet(calls) /\ d.op # "del"
  <2>1. CallSet(calls) = CallSet(s) \cup {c} BY <1>2 DEF PushFacts
  <2>2. \A d \in CallSet(s) : d.op # "del" BY <1>2, NoDelBelow DEF IInv, Stacked
  <2> QED BY <2>1, <2>2
<1>8. ASSUME NEW k \in used PROVE refcount'[k] = variables'[k] + Cardinality(In(k))' + HoldsIn(calls', k)
  <2>1. In(k)' = In(k) BY <1>3 DEF In
  <2>2. HoldsIn(calls, k) = HoldsIn(s, k)
    <3>1. HoldsIn(s, k) \in Nat /\ HoldsIn(calls, k) = HoldsIn(s, k) + (IF c.obj = k /\ c.op # "del" THEN 1 ELSE 0)
      BY <1>2 DEF PushFacts
    <3> QED BY <3>1, <1>1
  <2>3. gc.phase # "scan" BY <1>1, NotPassing DEF IInv
  <2>4. refcount[k] = variables[k] + Cardinality(In(k)) + HoldsIn(calls, k) BY <2>3, Counts
  <2> QED BY <2>1, <2>2, <2>4, <1>1, <1>3
<1>9. \A k \in Object : variables'[k] <= variables[k] /\ (variables[k] > 0 => variables'[k] > 0 \/ k = n)
  BY <1>3, GCAssumption DEF IInv, HeapTyped
<1>10. variables' \in [Object -> 0 .. MaxVars] /\ refcount' \in [Object -> Int] BY <1>3 DEF IInv, HeapTyped
<1>11. (Collects(calls') <=> gc'.phase # "idle") /\ (Collects(calls) => Below(calls') = Below(calls))
  <2>1. Collects(calls) <=> gc.phase # "idle" BY <1>1, NotPassing DEF IInv
  <2> QED BY <2>1, <1>1, <1>2, <1>3 DEF PushFacts
<1>12. ~Top("undtor")' BY <1>1, <1>5 DEF Top, MayPush
<1>13. \A d \in CallSet(calls) : d \in CallSet(calls') \/ (d.obj = n /\ d.op = "del")
  BY <1>1, <1>2, <1>4 DEF PushFacts
<1>14. Released(n) BY <1>1, <1>3, <1>5, <1>6, <1>7, <1>8, <1>9, <1>10, <1>11, <1>12, <1>13 DEF Released
<1>15. Kept' BY <1>1, <1>14, ReleasedKeeps
<1>16. HeapTyped' BY <1>15 DEF Kept
<1>17. \A d \in CallSet(calls') : d.obj \in Garbage => d.obj \in used'
  <2>1. \A k \in Garbage : k \in used BY InGarbage DEF IInv, HeapTyped
  <2> QED BY <2>1, <1>3
<1>18. gc.phase = "destroy" /\ ~gc.dtors => Quiet'
  <2>1. calls' = Tail(calls) BY <1>1 DEF s
  <2> QED BY <2>1, <1>1, <1>3, <1>16, <1>17, QuietPop
<1>19. Quiet' BY <1>1, <1>3, <1>18, QuietRest
<1> QED BY <1>15, <1>19, KeptAndQuiet

\* Calls that return and leave the object in the buffer.
LEMMA PopKeeps ==
  ASSUME IInv, calls # <<>>, calls[1].op \in {"gcdtor", "undtor", "gcfree"},
         calls[1].op = "gcfree" => Succ(calls[1].obj) = {}, tag[calls[1].obj] # "none",
         Lower(calls[1].obj), calls' = Tail(calls), UNCHANGED <<objectVars, refVars, color, tag, gc>>
  PROVE  Kept'
<1>1. ~Top("collect") BY DEF Top
<1>2. UNCHANGED <<used, free_called, dtor_called, nulled, variables, prop>> BY DEF objectVars, refVars
<1>3. Releasing(calls[1].obj, Tail(calls)) BY <1>2, PopReleasing
<1>4. Released(calls[1].obj) BY <1>1, <1>3, ReleaseGoesOn
<1> QED BY <1>1, <1>4, ReleasedKeeps

LEMMA DestructorCalledKeeps ==
  ASSUME IInv, DestructorCalled
  PROVE  IInv'
<1>1. calls # <<>> /\ calls[1].op = "gcdtor" /\ ~Top("collect") /\ gc' = gc BY DEF DestructorCalled, Top
<1>2. tag[calls[1].obj] = "root" BY <1>1, TopIn DEF IInv, CallFits
<1>3. Lower(calls[1].obj) /\ calls' = Tail(calls) /\ UNCHANGED <<objectVars, refVars, color, tag, gc>> BY DEF DestructorCalled
<1>4. Kept' BY <1>1, <1>2, <1>3, PopKeeps
<1>5. Quiet' BY <1>1, QuietNot
<1> QED BY <1>4, <1>5, KeptAndQuiet

LEMMA GarbageDestroyedKeeps ==
  ASSUME IInv, GarbageDestroyed
  PROVE  IInv'
<1>1. calls # <<>> /\ calls[1].op = "gcfree" /\ ~Top("collect") /\ gc' = gc /\ Succ(calls[1].obj) = {}
  BY DEF GarbageDestroyed, Top
<1>2. tag[calls[1].obj] = "garbage"
  <2>1. CallFits(calls[1]) BY <1>1, TopIn DEF IInv
  <2> QED BY <1>1, <2>1 DEF CallFits, IInv, Freed
<1>3. Lower(calls[1].obj) /\ calls' = Tail(calls) /\ UNCHANGED <<objectVars, refVars, color, tag, gc>> BY DEF GarbageDestroyed
<1>4. Kept' BY <1>1, <1>2, <1>3, PopKeeps
<1>5. HeapTyped' BY <1>4 DEF Kept
<1>6. UNCHANGED <<used, free_called, dtor_called, nulled, variables, prop, tag>> BY <1>3 DEF objectVars, refVars
<1>7. \A d \in CallSet(calls') : d.obj \in Garbage => d.obj \in used'
  <2>1. \A k \in Garbage : k \in used BY InGarbage DEF IInv, HeapTyped
  <2> QED BY <2>1, <1>6
<1>8. gc.phase = "destroy" /\ ~gc.dtors => Quiet' BY <1>1, <1>3, <1>5, <1>6, <1>7, QuietPop
<1>9. Quiet' BY <1>1, <1>8, QuietRest
<1> QED BY <1>4, <1>9, KeptAndQuiet

LEMMA FreePropertyKeeps ==
  ASSUME IInv, FreeProperty
  PROVE  IInv'
<1>1. calls # <<>> /\ calls[1].op \in {"free", "gcfree"} /\ ~Top("collect") /\ ~Top("del") /\ ~Top("undtor")
  BY DEF FreeProperty, Top
<1>2. PICK m : /\ m \in Succ(calls[1].obj) /\ prop' = prop \ {<<calls[1].obj, m>>} /\ zend_object_release(m, calls)
               /\ UNCHANGED <<objectVars, variables>>
  BY DEF FreeProperty
<1>3. <<calls[1].obj, m>> \in prop BY <1>2, InSucc DEF IInv
<1>4. Releasing(m, calls) BY <1>1, <1>2, <1>3, PropertyReleasing
<1>5. Released(m) BY <1>1, <1>2, <1>4, ReleaseReleased
<1>6. Kept' /\ HeapTyped'
  <2>1. Kept' BY <1>1, <1>5, ReleasedKeeps
  <2> QED BY <2>1 DEF Kept
<1>7. Quiet'
  <2>1. gc' = gc \/ gc'.phase = "mark" BY <1>5 DEF Released, Idle
  <2>2. gc.phase # "collect" BY <1>1, NotPassing DEF IInv
  <2>3. ASSUME gc.phase = "destroy", ~gc.dtors PROVE Quiet'
    <3>1. calls[1].obj \in Garbage /\ \A c \in Above(calls) : c.obj \in Garbage BY <1>1, <2>3, QuietTop DEF IInv
    <3>2. UNCHANGED <<used, free_called, variables>> BY <1>2 DEF objectVars
    <3>3. gc' = gc BY <1>5, <2>3 DEF Released
    <3>4. \A k \in Object : tag'[k] = "garbage" <=> tag[k] = "garbage" BY <1>5, ReleasedTag DEF IInv
    <3>5. \A k : k \in Garbage <=> k \in Garbage' BY <3>4, InGarbage, InGarbageNext
    <3>6. calls' = calls \/ (refcount[m] = 1 /\ calls' = <<Call("del", m)>> \o calls)
      BY <1>2, <2>3 DEF zend_object_release
    <3>7. CallSet(calls) \subseteq CallSet(calls') /\ \A c \in Above(calls') : c.obj \in Garbage'
      <4>1. CASE calls' = calls BY <4>1, <3>1, <3>5
      <4>2. CASE refcount[m] = 1 /\ calls' = <<Call("del", m)>> \o calls
        <5>1. m \in Garbage BY <4>2, <3>1, <1>3, <2>3, OutsideHeld
        <5>2. m \in Object BY <5>1, InGarbage
        <5>3. Call("del", m) \in CallRec /\ Call("del", m).obj = m BY <5>2 DEF Call, CallRec, Ops
        <5>4. PushFacts(calls', Call("del", m), calls) BY <4>2, <5>3, PushFact DEF IInv, Stacked
        <5>5. Collects(calls) BY <2>3 DEF IInv, Phased
        <5>6. CallSet(calls') = CallSet(calls) \cup {Call("del", m)} /\ Above(calls') = Above(calls) \cup {Call("del", m)}
          BY <5>4, <5>5 DEF PushFacts
        <5> QED BY <5>1, <5>3, <5>6, <3>1, <3>5
      <4> QED BY <3>6, <4>1, <4>2
    <3>8. \A j, k : <<j, k>> \in prop => <<j, k>> \in prop' \/ j \in Garbage BY <1>2, <3>1
    <3>9. \A k \in used' : k \in Object BY <1>6 DEF HeapTyped
    <3> QED BY <2>3, <1>6, <3>2, <3>3, <3>4, <3>7, <3>8, <3>9, QuietStep
  <2> QED BY <2>1, <2>2, <2>3 DEF Quiet
<1> QED BY <1>6, <1>7, KeptAndQuiet

\* A step that takes nothing from the objects and the sources.
LEMMA RootedSame ==
  ASSUME HeapTyped, HeapTyped', Rooted, UNCHANGED <<used, variables, prop>>, free_called \subseteq free_called',
         \A k \in Object : tag[k] # "none" => tag'[k] # "none",
         \A c \in CallSet(calls) : \E d \in CallSet(calls') : d.obj = c.obj
  PROVE  used' \subseteq Reach(Sources)'
<1>1. (\A k : k \in Sources <=> \/ k \in Object /\ variables[k] > 0
                                \/ \E d \in CallSet(calls) : d.obj = k
                                \/ \E m \in free_called : <<m, k>> \in prop
                                \/ k \in Object /\ tag[k] # "none")'
  BY InSourcesNext
<1>2. ASSUME NEW k \in Sources PROVE k \in Sources'
  <2>1. \/ k \in Object /\ variables[k] > 0
        \/ \E d \in CallSet(calls) : d.obj = k
        \/ \E m \in free_called : <<m, k>> \in prop
        \/ k \in Object /\ tag[k] # "none"
    BY InSources
  <2>2. (\E d \in CallSet(calls) : d.obj = k) => \E d \in CallSet(calls') : d.obj = k OBVIOUS
  <2>3. (\E m \in free_called : <<m, k>> \in prop) => \E m \in free_called' : <<m, k>> \in prop' OBVIOUS
  <2> QED BY <2>1, <2>2, <2>3, <1>1
<1>3. ASSUME NEW m \in used, NEW k \in Visited(m) PROVE k \in Visited(m)' \/ k \in Sources'
  <2>1. m \notin free_called /\ <<m, k>> \in prop BY InVisited
  <2>2. (\A j, l : l \in Visited(j) <=> j \notin free_called /\ <<j, l>> \in prop)' BY InVisitedNext
  <2> QED BY <2>1, <2>2, <1>1
<1>4. used \subseteq Reach(Sources) BY DEF Rooted
<1> QED BY <1>2, <1>3, <1>4, RootedKept

\* The call that a deletion is, or goes on with.
LEMMA DelFacts ==
  ASSUME IInv, Top("del") \/ Top("undtor")
  PROVE  /\ calls # <<>> /\ calls[1].op \in {"del", "undtor"} /\ PushFacts(calls, calls[1], Tail(calls))
         /\ Shape(Tail(calls)) /\ MayPush(calls[1], Tail(calls)) /\ Tail(calls) \in Seq(CallRec)
         /\ calls[1].obj \in used /\ calls[1].obj \in Object
         /\ CallSet(calls) = CallSet(Tail(calls)) \cup {calls[1]}
         /\ \A d \in CallSet(Tail(calls)) : d.op # "del" /\ (d.op = "free" => d.obj # calls[1].obj)
         /\ (Tail(calls) # <<>> => Tail(calls)[1].op \notin {"del", "undtor"})
         /\ ~Top("collect") /\ (Collects(Tail(calls)) <=> Collects(calls))
         /\ (Collects(calls) => Below(Tail(calls)) = Below(calls))
<1>1. calls # <<>> /\ calls[1].op \in {"del", "undtor"} /\ ~Top("collect") BY DEF Top
<1>2. PushFacts(calls, calls[1], Tail(calls)) /\ Tail(calls) \in Seq(CallRec) BY <1>1, PopFact DEF IInv, Stacked
<1> DEFINE c == calls[1]
           s == Tail(calls)
<1>3. c.op \in {"del", "undtor"} /\ PushFacts(calls, c, s) BY <1>1, <1>2
<1>4. CallFits(c) BY <1>1, TopIn DEF IInv
<1> HIDE DEF c, s
<1>5. Shape(s) /\ MayPush(c, s) BY <1>3 DEF PushFacts, IInv, Stacked
<1>6. c.obj \in used /\ c.obj \in Object BY <1>3, <1>4 DEF CallFits, IInv, HeapTyped
<1>7. CallSet(calls) = CallSet(s) \cup {c} BY <1>3 DEF PushFacts
<1>8. \A d \in CallSet(s) : d.op # "del" /\ (d.op = "free" => d.obj # c.obj)
  <2>1. \A d \in CallSet(s) : d.op # "del" BY <1>3, NoDelBelow DEF IInv, Stacked
  <2> QED BY <2>1, <1>5 DEF MayPush
<1>9. s # <<>> => s[1].op \notin {"del", "undtor"} BY <1>3, <1>5 DEF MayPush
<1>10. (Collects(s) <=> Collects(calls)) /\ (Collects(calls) => Below(s) = Below(calls)) BY <1>3 DEF PushFacts
<1> QED BY <1>1, <1>2, <1>5, <1>6, <1>7, <1>8, <1>9, <1>10 DEF c, s

LEMMA NotNulled ==
  IInv /\ Top("undtor") => calls[1].obj \notin Garbage /\ calls[1].obj \notin nulled
<1> SUFFICES ASSUME IInv, Top("undtor") PROVE calls[1].obj \notin Garbage /\ calls[1].obj \notin nulled OBVIOUS
<1>1. calls # <<>> /\ calls[1].op = "undtor" BY DEF Top
<1>2. calls[1] \in CallSet(calls) BY <1>1, TopIn DEF IInv
<1>3. calls[1].obj \notin Garbage BY <1>1, <1>2 DEF IInv, Isolated
<1>4. \A k \in nulled : k \in Object /\ tag[k] = "garbage" BY DEF IInv, Freed, HeapTyped
<1> QED BY <1>3, <1>4, InGarbage

LEMMA SetCount ==
  ASSUME refcount \in [Object -> Int], NEW n \in Object, NEW v \in Int, refcount' = [refcount EXCEPT ![n] = v]
  PROVE  refcount' \in [Object -> Int] /\ \A k \in Object : refcount'[k] = IF k = n THEN v ELSE refcount[k]
OBVIOUS

\* An object is freed when nothing refers to it.
LEMMA StartFreeKeeps ==
  ASSUME IInv, Top("del") \/ Top("undtor"), calls[1].obj \notin nulled,
         StartFree(calls[1].obj, Tail(calls)),
         refcount[calls[1].obj] = IF calls[1].op = "del" THEN 0 ELSE 1,
         dtor_called' \in {dtor_called, dtor_called \cup {calls[1].obj}},
         UNCHANGED <<used, nulled, refVars, color, tag, gc>>
  PROVE  IInv'
<1> DEFINE c == calls[1]
           n == calls[1].obj
           s == Tail(calls)
<1>0. PICK f : f = Call("free", n) OBVIOUS
<1>1. /\ c.op \in {"del", "undtor"} /\ n = c.obj /\ PushFacts(calls, c, s)
      /\ Shape(s) /\ MayPush(c, s) /\ s \in Seq(CallRec)
      /\ n \in used /\ n \in Object /\ n \notin nulled
      /\ CallSet(calls) = CallSet(s) \cup {c}
      /\ \A d \in CallSet(s) : d.op # "del"
      /\ (s # <<>> => s[1].op \notin {"del", "undtor"})
      /\ ~Top("collect") /\ (Collects(s) <=> Collects(calls))
      /\ (Collects(calls) => Below(s) = Below(calls))
  BY DelFacts
<1>2. /\ free_called' = free_called \cup {n} /\ refcount' = [refcount EXCEPT ![n] = 1]
      /\ calls' = <<f>> \o s /\ refcount[n] = IF c.op = "del" THEN 0 ELSE 1
      /\ dtor_called' \in {dtor_called, dtor_called \cup {n}}
      /\ UNCHANGED <<used, nulled, variables, prop, color, tag, gc>>
  BY <1>0 DEF StartFree, refVars
<1>3. f \in CallRec /\ f.op = "free" /\ f.obj = n /\ f = Call("free", n) BY <1>0, <1>1 DEF Call, CallRec, Ops
<1>4. Top("undtor") => n \notin Garbage BY NotNulled
<1>5. c.op = "undtor" => Top("undtor") BY DEF Top
<1>6. c.op = "del" => Top("del") BY DEF Top
<1> HIDE DEF c, n, s
<1>7. PushFacts(calls', f, s) BY <1>1, <1>2, <1>3, PushFact
<1>8. gc.phase # "scan" /\ gc' = gc BY <1>1, <1>2, NotPassing DEF IInv
<1>9. variables[n] = 0 /\ HoldsIn(s, n) = 0 /\ \A m : <<m, n>> \notin prop
  <2>1. /\ refcount[n] = variables[n] + Cardinality(In(n)) + HoldsIn(calls, n)
        /\ variables[n] \in Nat /\ Cardinality(In(n)) \in Nat /\ HoldsIn(calls, n) \in Nat
    BY <1>1, <1>8, Counts
  <2>2. HoldsIn(s, n) \in Nat /\ HoldsIn(calls, n) = HoldsIn(s, n) + (IF c.obj = n /\ c.op # "del" THEN 1 ELSE 0)
    BY <1>1 DEF PushFacts
  <2>3. variables[n] = 0 /\ HoldsIn(s, n) = 0 /\ Cardinality(In(n)) = 0 BY <2>1, <2>2, <1>1, <1>2
  <2> QED BY <2>3, InFinite DEF IInv
<1>10. \A d \in CallSet(s) : d.obj # n
  <2>1. HoldsIn(s, n) = 0 <=> \A d \in CallSet(s) : d.obj = n => d.op = "del" BY <1>1, HeldOnce
  <2> QED BY <2>1, <1>1, <1>9
<1>11. Shape(calls') /\ calls' \in Seq(CallRec)
  <2>1. MayPush(f, s) BY <1>1, <1>3, <1>10 DEF MayPush
  <2> QED BY <2>1, <1>1, <1>7 DEF PushFacts
<1>12. CallSet(calls') = CallSet(s) \cup {f} /\ calls' # <<>> /\ calls'[1] = f BY <1>7 DEF PushFacts
<1>13. refcount \in [Object -> Int] /\ prop \subseteq used \X used BY DEF IInv, HeapTyped
<1>14. refcount' \in [Object -> Int] /\ \A k \in Object : refcount'[k] = IF k = n THEN 1 ELSE refcount[k]
  <2>1. refcount' = [refcount EXCEPT ![n] = 1] BY <1>2
  <2>2. refcount \in [Object -> Int] /\ n \in Object /\ 1 \in Int BY <1>1, <1>13
  <2> QED BY <2>1, <2>2, SetCount
<1>15. HeapTyped'
  <2>1. dtor_called' \subseteq used' /\ free_called' \subseteq used' /\ nulled' \subseteq free_called'
    BY <1>1, <1>2 DEF IInv, HeapTyped
  <2>2. \A k \in Object \ used' : variables'[k] = 0 /\ refcount'[k] = 0 /\ tag'[k] = "none"
    BY <1>1, <1>2, <1>14 DEF IInv, HeapTyped
  <2> QED BY <2>1, <2>2, <1>2, <1>14 DEF IInv, HeapTyped
<1>16. GCTyped' BY <1>2 DEF IInv, GCTyped
<1>17. Stacked'
  <2>1. ASSUME NEW d \in CallSet(s) PROVE CallFits(d)'
    <3>1. CallFits(d) /\ d.obj # n /\ d.op # "del" BY <1>1, <1>10 DEF IInv, Stacked
    <3> QED BY <3>1, <1>2 DEF CallFits
  <2>2. CallFits(f)' BY <1>1, <1>2, <1>3, <1>9, GCAssumption DEF CallFits
  <2>3. ~Top("undtor")' BY <1>3, <1>12 DEF Top
  <2> QED BY <2>1, <2>2, <2>3, <1>11, <1>12 DEF Stacked
<1>18. Exact'
  <2> SUFFICES ASSUME NEW k \in used PROVE refcount'[k] = Total(k)' BY <1>2, <1>8 DEF Exact
  <2>1. In(k)' = In(k) BY <1>2 DEF In
  <2>2. k \in Object BY DEF IInv, HeapTyped
  <2>3. /\ refcount[k] = variables[k] + Cardinality(In(k)) + HoldsIn(calls, k)
        /\ variables[k] \in Nat /\ Cardinality(In(k)) \in Nat /\ HoldsIn(calls, k) \in Nat
    BY <1>8, Counts
  <2>4. HoldsIn(s, k) \in Nat /\ HoldsIn(calls, k) = HoldsIn(s, k) + (IF c.obj = k /\ c.op # "del" THEN 1 ELSE 0)
    BY <1>1 DEF PushFacts
  <2>5. HoldsIn(calls', k) = HoldsIn(s, k) + (IF f.obj = k /\ f.op # "del" THEN 1 ELSE 0) BY <1>7 DEF PushFacts
  <2>6. Total(k)' = variables[k] + Cardinality(In(k)) + HoldsIn(calls', k) BY <2>1, <1>2 DEF Total
  <2>7. CASE k = n
    <3>1. refcount'[k] = 1 /\ variables[k] = 0 /\ HoldsIn(s, k) = 0 /\ Cardinality(In(k)) = 0
      BY <2>7, <1>9, <1>14, <2>2, InFinite DEF IInv
    <3> QED BY <3>1, <2>5, <2>6, <2>7, <1>3
  <2>8. CASE k # n
    <3>1. refcount'[k] = refcount[k] /\ HoldsIn(calls', k) = HoldsIn(calls, k) BY <2>2, <2>4, <2>5, <2>8, <1>1, <1>3, <1>14
    <3> QED BY <3>1, <2>3, <2>6
  <2> QED BY <2>7, <2>8
<1>19. Garbage' = Garbage /\ Tagged("dtor")' = Tagged("dtor") BY <1>2 DEF Garbage, Tagged
<1>20. (Collects(calls') <=> Collects(calls)) /\ (Collects(calls) => Below(calls') = Below(calls))
  BY <1>1, <1>3, <1>7 DEF PushFacts
<1>21. Phased'
  <2>1. gc.phase \in {"idle", "dtors", "destroy"} BY <1>1, NotPassing DEF IInv
  <2> QED BY <2>1, <1>2, <1>19, <1>20 DEF Phased, IInv
<1>22. Isolated'
  <2> SUFFICES ASSUME NEW g \in Garbage
               PROVE  /\ variables'[g] = 0 /\ \A m \in used' : <<m, g>> \in prop' => m \in Garbage
                      /\ \A d \in CallSet(calls') :
                           d.obj = g => d.op \in {"del", "free", "gcfree"} /\ d \notin Below(calls')
    BY <1>19 DEF Isolated
  <2>1. Below(calls') = Below(calls)
    <3>1. Collects(calls) BY <1>1, NotPassing DEF IInv
    <3> QED BY <3>1, <1>20
  <2>2. ASSUME NEW d \in CallSet(calls'), d.obj = g PROVE d.op \in {"del", "free", "gcfree"} /\ d \notin Below(calls')
    <3>1. CASE d \in CallSet(calls) BY <3>1, <2>1, <2>2 DEF IInv, Isolated
    <3>2. CASE d \notin CallSet(calls)
      <4>1. d = f BY <3>2, <1>1, <1>12
      <4>2. Below(calls) \subseteq CallSet(calls) BY DEF Below, CallSet
      <4> QED BY <4>1, <4>2, <3>2, <2>1, <1>3
    <3> QED BY <3>1, <3>2
  <2> QED BY <2>2, <1>2 DEF IInv, Isolated
<1>23. Freed'
  <2>1. \A k : Succ(k)' = Succ(k) BY <1>2 DEF Succ
  <2>2. \A k \in free_called' : k \in nulled \/ Call("free", k) \in CallSet(calls')
    <3> SUFFICES ASSUME NEW k \in free_called', k \notin nulled, k # n PROVE Call("free", k) \in CallSet(calls')
      BY <1>3, <1>12
    <3>1. Call("free", k) \in CallSet(calls) /\ Call("free", k).op = "free" BY <1>2 DEF IInv, Freed, Call
    <3> QED BY <3>1, <1>1, <1>12
  <2>3. ASSUME NEW k \in nulled PROVE tag[k] = "garbage" /\ (Succ(k)' = {} \/ Call("gcfree", k) \in CallSet(calls'))
    <3>1. tag[k] = "garbage" /\ (Succ(k) = {} \/ Call("gcfree", k) \in CallSet(calls)) BY DEF IInv, Freed
    <3>2. Call("gcfree", k).op = "gcfree" BY DEF Call
    <3> QED BY <3>1, <3>2, <2>1, <1>1, <1>12
  <2> QED BY <2>2, <2>3, <1>2 DEF Freed
<1>24. Scanned' BY <1>8 DEF Scanned
<1>27. Waiting'
  <2> SUFFICES ASSUME NEW k \in Tagged("dtor"), NEW d \in Below(calls') PROVE d.obj # k
    BY <1>19 DEF Waiting
  <2>1. Collects(calls) BY <1>1, NotPassing DEF IInv
  <2>2. Below(calls') = Below(calls) BY <2>1, <1>20
  <2> QED BY <2>2 DEF IInv, Waiting
<1>25. Rooted'
  <2>1. \A d \in CallSet(calls) : \E e \in CallSet(calls') : e.obj = d.obj BY <1>1, <1>3, <1>12
  <2>2. free_called \subseteq free_called' /\ UNCHANGED <<used, variables, prop>> /\ tag' = tag BY <1>2
  <2>3. used' \subseteq Reach(Sources)' BY <2>1, <2>2, <1>15, RootedSame DEF IInv
  <2> QED BY <2>3, <1>8 DEF Rooted
<1>26. Quiet'
  <2>1. ASSUME gc.phase = "destroy", ~gc.dtors PROVE Quiet'
    <3>1. calls[1].obj \in Garbage /\ \A d \in Above(calls) : d.obj \in Garbage BY <2>1, <1>1, QuietTop DEF IInv
    <3>2. n \in Garbage BY <3>1 DEF n
    <3>3. \A k : k \in Garbage <=> k \in Garbage' BY <1>19
    <3>4. Above(calls') \subseteq Above(calls) \cup {f}
      <4>1. Collects(calls) BY <2>1 DEF IInv, Phased
      <4> QED BY <4>1, <1>1, <1>7 DEF PushFacts
    <3>5. \A d \in Above(calls') : d.obj \in Garbage' BY <3>1, <3>2, <3>3, <3>4, <1>3
    <3>6. \A d \in CallSet(calls) : d \in CallSet(calls') \/ d.obj \in Garbage BY <3>2, <1>1, <1>12
    <3>7. \A m \in used : m \notin Garbage => (m \in free_called <=> m \in free_called') BY <3>2, <1>2
    <3> QED BY <2>1, <3>5, <3>6, <3>7, <1>2, <1>15, QuietStep
  <2> QED BY <2>1, <1>1, <1>2, QuietRest
<1> QED BY <1>15, <1>16, <1>17, <1>18, <1>21, <1>22, <1>23, <1>24, <1>25, <1>26, <1>27 DEF IInv

LEMMA DelFreeKeeps ==
  ASSUME IInv, DelFree
  PROVE  IInv'
<1>1. Top("del") /\ calls[1].obj \notin nulled /\ StartFree(calls[1].obj, Tail(calls))
        /\ dtor_called' = dtor_called \cup {calls[1].obj} /\ UNCHANGED <<used, nulled, refVars, color, tag, gc>>
  BY DEF DelFree
<1>2. calls # <<>> /\ calls[1].op = "del" BY <1>1 DEF Top
<1>3. refcount[calls[1].obj] = 0
  <2>1. CallFits(calls[1]) BY <1>2, TopIn DEF IInv
  <2> QED BY <2>1, <1>2 DEF CallFits
<1> QED BY <1>1, <1>2, <1>3, StartFreeKeeps

LEMMA DelAfterKeeps ==
  ASSUME IInv, DelAfter
  PROVE  IInv'
<1>1. Top("undtor") /\ calls # <<>> /\ calls[1].op = "undtor" BY DEF DelAfter, Top
<1>2. UNCHANGED <<used, dtor_called, nulled, refVars, color, tag, gc>> BY DEF DelAfter
<1>3. CASE refcount[calls[1].obj] = 1
  <2>1. StartFree(calls[1].obj, Tail(calls)) BY <1>3 DEF DelAfter
  <2>2. calls[1].obj \notin nulled BY <1>1, NotNulled
  <2> QED BY <1>1, <1>2, <1>3, <2>1, <2>2, StartFreeKeeps
<1>4. CASE refcount[calls[1].obj] # 1
  <2>1. Lower(calls[1].obj) /\ calls' = Tail(calls) /\ UNCHANGED free_called BY <1>4 DEF DelAfter
  <2>2. tag[calls[1].obj] # "none" BY <1>1 DEF IInv, Stacked
  <2>3. UNCHANGED objectVars BY <1>2, <2>1 DEF objectVars
  <2>4. Kept' BY <1>1, <1>2, <2>1, <2>2, <2>3, PopKeeps
  <2>5. ~Top("collect") BY <1>1 DEF Top
  <2>6. Quiet' BY <1>1, <1>2, <2>5, QuietNot
  <2> QED BY <2>4, <2>6, KeptAndQuiet
<1> QED BY <1>3, <1>4

\* A step that makes calls.
LEMMA CallingKeeps ==
  ASSUME IInv, gc.phase # "scan", gc'.phase # "scan", UNCHANGED <<used, variables, prop>>,
         tag' \in [Object -> {"none", "root", "garbage", "dtor"}],
         color' \in [Object -> {"black", "white", "grey", "purple"}],
         \A k \in Object : tag[k] # "none" <=> tag'[k] # "none",
         dtor_called' \subseteq used, free_called \subseteq free_called', free_called' \subseteq used,
         nulled' \subseteq free_called',
         \A c \in CallSet(calls) : \E d \in CallSet(calls') : d.obj = c.obj,
         calls' \in Seq(CallRec), Shape(calls'), \A c \in CallSet(calls') : CallFits(c)', ~Top("undtor")',
         refcount' \in [Object -> Int], \A k \in Object \ used : refcount'[k] = refcount[k],
         \A k \in used : refcount'[k] + HoldsIn(calls, k) = refcount[k] + HoldsIn(calls', k)
  PROVE  HeapTyped' /\ Stacked' /\ Exact' /\ Scanned' /\ Rooted'
<1>1. HeapTyped' BY DEF IInv, HeapTyped
<1>2. Stacked' BY DEF Stacked
<1>3. Exact'
  <2> SUFFICES ASSUME NEW k \in used PROVE refcount'[k] = Total(k)' BY DEF Exact
  <2>1. In(k)' = In(k) BY DEF In
  <2>2. /\ refcount[k] = variables[k] + Cardinality(In(k)) + HoldsIn(calls, k)
        /\ variables[k] \in Nat /\ Cardinality(In(k)) \in Nat /\ HoldsIn(calls, k) \in Nat
    BY Counts
  <2>3. HoldsIn(calls', k) \in Nat BY HeldOnce
  <2>4. refcount'[k] \in Int BY DEF IInv, HeapTyped
  <2>5. refcount'[k] = variables[k] + Cardinality(In(k)) + HoldsIn(calls', k)
    <3>1. refcount'[k] + HoldsIn(calls, k) = refcount[k] + HoldsIn(calls', k) OBVIOUS
    <3>2. PICK a, r, v, c, h, i : /\ a = refcount'[k] /\ r = refcount[k] /\ v = variables[k] /\ c = Cardinality(In(k))
                                 /\ h = HoldsIn(calls, k) /\ i = HoldsIn(calls', k)
      OBVIOUS
    <3>3. a \in Int /\ v \in Nat /\ c \in Nat /\ h \in Nat /\ i \in Nat /\ r = v + c + h /\ a + h = r + i
      BY <3>1, <3>2, <2>2, <2>3, <2>4
    <3>4. a = v + c + i BY <3>3
    <3> QED BY <3>2, <3>4
  <2> QED BY <2>1, <2>5 DEF Total
<1>4. Scanned' BY DEF Scanned
<1>5. used' \subseteq Reach(Sources)' BY <1>1, RootedSame DEF IInv
<1>6. Rooted' BY <1>5 DEF Rooted
<1> QED BY <1>1, <1>2, <1>3, <1>4, <1>6

\* Colors and tags, and the calls of the program, are as they were.
LEMMA CallFitsKept ==
  ASSUME NEW c, CallFits(c), UNCHANGED <<used, variables, prop>>, dtor_called \subseteq dtor_called',
         free_called \subseteq free_called', nulled \subseteq nulled',
         c.op = "del" => refcount'[c.obj] = refcount[c.obj],
         c.op = "free" => c.obj \notin nulled',
         c.op = "gcdtor" => tag'[c.obj] = tag[c.obj] \/ tag'[c.obj] = "root"
  PROVE  CallFits(c)'
BY DEF CallFits

LEMMA CollectCallKeeps ==
  ASSUME IInv, CollectCall
  PROVE  IInv'
<1>0. PICK d : d = Call("collect", "none") OBVIOUS
<1>1. d \in CallRec /\ d.op = "collect" /\ d.obj = "none" BY <1>0 DEF Call, CallRec, Ops
<1>2. /\ calls \in Seq(CallRec) /\ Shape(calls) /\ gc.phase = "idle"
      /\ ~Top("collect") /\ ~Top("del") /\ ~Top("undtor")
  BY DEF CollectCall, Running, Top, IInv, Stacked
<1>3. /\ calls' = <<d>> \o calls /\ gc' = [Idle EXCEPT !.phase = "mark"]
      /\ UNCHANGED <<used, free_called, dtor_called, nulled, variables, prop, refcount, color, tag>>
  BY <1>0 DEF CollectCall, objectVars, refVars
<1>4. PushFacts(calls', d, calls) BY <1>1, <1>2, <1>3, PushFact
<1>5. ~Collects(calls) /\ Garbage = {} /\ Tagged("dtor") = {} /\ nulled = {} BY <1>2, NotPassing DEF IInv
<1>6. ASSUME NEW c \in CallSet(calls) PROVE CallFits(c) /\ CallFits(c)' /\ c.op # "del" /\ (c.op = "free" => c.obj # "none")
  <2>1. CallFits(c) /\ c.op # "del" BY <1>2, NoDel DEF IInv, Stacked
  <2>2. c.op = "free" => c.obj # "none" /\ c.obj \notin nulled BY <2>1 DEF CallFits
  <2> QED BY <2>1, <2>2, <1>3, CallFitsKept
<1>7. MayPush(d, calls) BY <1>1, <1>2, <1>5, <1>6 DEF MayPush, Top
<1>8. /\ calls' \in Seq(CallRec) /\ Shape(calls') /\ calls'[1] = d /\ calls' # <<>>
      /\ CallSet(calls') = CallSet(calls) \cup {d} /\ Collects(calls')
  BY <1>1, <1>2, <1>4, <1>7 DEF PushFacts
<1>9. CallFits(d)' BY <1>1 DEF CallFits
<1>10. gc'.phase = "mark" /\ gc'.work = {} /\ gc'.black = {} BY <1>3 DEF Idle
<1>11. GCTyped' BY <1>3 DEF GCTyped, Idle
<1>12. HeapTyped' /\ Stacked' /\ Exact' /\ Scanned' /\ Rooted'
  <2>1. \A c \in CallSet(calls') : CallFits(c)' BY <1>6, <1>8, <1>9
  <2>2. ~Top("undtor")' BY <1>1, <1>8 DEF Top
  <2>3. \A k \in used : refcount'[k] + HoldsIn(calls, k) = refcount[k] + HoldsIn(calls', k)
    <3> SUFFICES ASSUME NEW k \in used PROVE HoldsIn(calls', k) = HoldsIn(calls, k) BY <1>3
    <3>1. k # "none" BY GCAssumption DEF IInv, HeapTyped
    <3>2. HoldsIn(calls, k) \in Nat /\ HoldsIn(calls', k) = HoldsIn(calls, k) + (IF d.obj = k /\ d.op # "del" THEN 1 ELSE 0)
      BY <1>4 DEF PushFacts
    <3> QED BY <3>1, <3>2, <1>1
  <2>4. gc.phase # "scan" /\ gc'.phase # "scan" BY <1>2, <1>10
  <2>5. \A c \in CallSet(calls) : \E e \in CallSet(calls') : e.obj = c.obj BY <1>8
  <2>6. /\ tag' \in [Object -> {"none", "root", "garbage", "dtor"}] /\ color' \in [Object -> {"black", "white", "grey", "purple"}]
        /\ \A k \in Object : tag[k] # "none" <=> tag'[k] # "none"
        /\ dtor_called' \subseteq used /\ free_called \subseteq free_called' /\ free_called' \subseteq used /\ nulled' \subseteq free_called'
        /\ refcount' \in [Object -> Int] /\ \A k \in Object \ used : refcount'[k] = refcount[k]
    BY <1>3 DEF IInv, HeapTyped
  <2> QED BY <2>1, <2>2, <2>3, <2>4, <2>5, <2>6, <1>3, <1>8, CallingKeeps
<1>13. Garbage' = {} /\ Tagged("dtor")' = {} BY <1>3, <1>5 DEF Garbage, Tagged
<1>14. Phased'
  <2>1. Top("collect")' BY <1>1, <1>8 DEF Top
  <2>2. \A n \in Object : color'[n] = IF tag'[n] \in {"root", "dtor"} THEN "purple" ELSE "black"
    BY <1>2, <1>3, NotPassing DEF IInv
  <2> QED BY <2>1, <2>2, <1>3, <1>5, <1>8, <1>10, <1>13 DEF Phased
<1>15. Isolated' /\ Waiting' BY <1>13 DEF Isolated, Waiting
<1>16. Freed'
  <2>1. \A k : Succ(k)' = Succ(k) BY <1>3 DEF Succ
  <2> QED BY <2>1, <1>3, <1>5, <1>8 DEF IInv, Freed
<1>17. Quiet' BY <1>10 DEF Quiet
<1> QED BY <1>11, <1>12, <1>14, <1>15, <1>16, <1>17 DEF IInv

\* At the collection no call of those below it is about garbage.
LEMMA CollectTop ==
  IInv /\ Top("collect") =>
    /\ calls # <<>> /\ calls[1].op = "collect" /\ calls[1].obj = "none" /\ Collects(calls) /\ gc.phase # "idle"
    /\ Below(calls) = CallSet(calls) /\ Above(calls) = {} /\ \A c \in CallSet(calls) : c.op \notin {"del", "gcdtor"}
    /\ \A n \in Object : tag[n] \in {"garbage", "dtor"} => \A c \in CallSet(calls) : c.obj # n
<1> SUFFICES ASSUME IInv, Top("collect")
             PROVE  /\ calls # <<>> /\ calls[1].op = "collect" /\ calls[1].obj = "none" /\ Collects(calls) /\ gc.phase # "idle"
                    /\ Below(calls) = CallSet(calls) /\ Above(calls) = {} /\ \A c \in CallSet(calls) : c.op \notin {"del", "gcdtor"}
                    /\ \A n \in Object : tag[n] \in {"garbage", "dtor"} => \A c \in CallSet(calls) : c.obj # n
  OBVIOUS
<1>1. calls # <<>> /\ calls[1].op = "collect" /\ ~Top("del") BY DEF Top
<1>2. calls[1].obj = "none"
  <2>1. CallFits(calls[1]) BY <1>1, TopIn DEF IInv
  <2> QED BY <2>1, <1>1 DEF CallFits
<1>3. PushFacts(calls, calls[1], Tail(calls)) BY <1>1, PopFact DEF IInv, Stacked
<1>4. ~Collects(Tail(calls)) /\ Collects(calls) BY <1>1, <1>3 DEF PushFacts, MayPush, IInv, Stacked
<1>5. Below(calls) = CallSet(calls) /\ Above(calls) = {} BY <1>3, <1>4 DEF PushFacts
<1>6. \A c \in CallSet(calls) : c.op \notin {"del", "gcdtor"}
  <2>1. ASSUME NEW c \in CallSet(calls), c.op = "gcdtor" PROVE FALSE
    <3>1. calls \in Seq(CallRec) /\ Shape(calls) BY DEF IInv, Stacked
    <3>2. PICK i \in DOMAIN calls : calls[i].op = "gcdtor" BY <2>1 DEF CallSet
    <3>3. i + 1 \in DOMAIN calls /\ calls[i + 1].op = "collect" BY <3>1, <3>2 DEF Shape
    <3>4. 1 \in DOMAIN calls /\ i \in Nat /\ i >= 1 BY <1>1, <3>1
    <3>5. i + 1 = 1 BY <1>1, <3>1, <3>3, <3>4 DEF Shape
    <3> QED BY <3>4, <3>5
  <2> QED BY <2>1, <1>1, NoDel DEF IInv
<1>7. gc.phase # "idle" BY <1>4 DEF IInv, Phased
<1>8. ASSUME NEW n \in Object, tag[n] \in {"garbage", "dtor"}, NEW c \in CallSet(calls) PROVE c.obj # n
  <2>1. CASE tag[n] = "garbage"
    <3>1. n \in Garbage BY <2>1, InGarbage
    <3> QED BY <3>1, <1>5 DEF IInv, Isolated
  <2>2. CASE tag[n] = "dtor"
    <3>1. n \in Tagged("dtor") BY <2>2 DEF Tagged
    <3> QED BY <3>1, <1>5 DEF IInv, Waiting
  <2> QED BY <2>1, <2>2, <1>8
<1> QED BY <1>1, <1>2, <1>4, <1>5, <1>6, <1>7, <1>8

LEMMA DestroyGarbageKeeps ==
  ASSUME IInv, DestroyGarbage
  PROVE  IInv'
<1>1. Top("collect") /\ gc.phase = "destroy" /\ gc' = gc BY DEF DestroyGarbage, Phase
<1>2. PICK n \in Tagged("garbage") \ nulled :
        /\ nulled' = nulled \cup {n} /\ free_called' = free_called \cup {n}
        /\ refcount' = [refcount EXCEPT ![n] = @ + 1] /\ calls' = <<Call("gcfree", n)>> \o calls
        /\ UNCHANGED <<used, dtor_called, variables, prop, color, tag, gc>>
  BY DEF DestroyGarbage, refVars
<1>3. n \in Garbage /\ n \in Object /\ tag[n] = "garbage" /\ n \in used /\ n \notin nulled
  <2>1. n \in Object /\ tag[n] = "garbage" /\ n \notin nulled BY <1>2 DEF Tagged
  <2> QED BY <2>1, InGarbage DEF IInv, HeapTyped
<1>4. PICK d : d = Call("gcfree", n) OBVIOUS
<1>5. d \in CallRec /\ d.op = "gcfree" /\ d.obj = n BY <1>3, <1>4 DEF Call, CallRec, Ops
<1>6. calls \in Seq(CallRec) /\ Shape(calls) /\ calls' = <<d>> \o calls BY <1>2, <1>4 DEF IInv, Stacked
<1>7. PushFacts(calls', d, calls) BY <1>5, <1>6, PushFact
<1>8. /\ calls # <<>> /\ calls[1].op = "collect" /\ calls[1].obj = "none" /\ Collects(calls) /\ gc.phase # "idle"
      /\ Below(calls) = CallSet(calls) /\ Above(calls) = {} /\ \A c \in CallSet(calls) : c.op # "del" /\ c.obj # n
  BY <1>1, <1>3, CollectTop
<1>9. /\ calls' \in Seq(CallRec) /\ Shape(calls') /\ calls'[1] = d /\ calls' # <<>>
      /\ CallSet(calls') = CallSet(calls) \cup {d} /\ Collects(calls')
      /\ Below(calls') = CallSet(calls) /\ Above(calls') = {d}
  <2>1. MayPush(d, calls) BY <1>5, <1>8 DEF MayPush
  <2> QED BY <2>1, <1>6, <1>7, <1>8 DEF PushFacts
<1>10. refcount \in [Object -> Int] BY DEF IInv, HeapTyped
<1>11. refcount' \in [Object -> Int] /\ \A k \in Object : refcount'[k] = IF k = n THEN refcount[k] + 1 ELSE refcount[k]
  BY <1>2, <1>3, <1>10
<1>12. \A c \in CallSet(calls') : CallFits(c)'
  <2>1. ASSUME NEW c \in CallSet(calls) PROVE CallFits(c)'
    <3>1. CallFits(c) /\ c.op # "del" /\ c.obj # n BY <1>8 DEF IInv, Stacked
    <3>2. c.op = "free" => c.obj \notin nulled' BY <3>1, <1>2 DEF CallFits
    <3> QED BY <3>1, <3>2, <1>2, CallFitsKept
  <2>2. CallFits(d)' BY <1>2, <1>3, <1>5, GCAssumption DEF CallFits
  <2> QED BY <2>1, <2>2, <1>9
<1>13. HeapTyped' /\ Stacked' /\ Exact' /\ Scanned' /\ Rooted'
  <2>1. ~Top("undtor")' BY <1>5, <1>9 DEF Top
  <2>2. \A k \in used : refcount'[k] + HoldsIn(calls, k) = refcount[k] + HoldsIn(calls', k)
    <3> SUFFICES ASSUME NEW k \in used PROVE refcount'[k] + HoldsIn(calls, k) = refcount[k] + HoldsIn(calls', k) OBVIOUS
    <3>1. HoldsIn(calls, k) \in Nat /\ HoldsIn(calls', k) = HoldsIn(calls, k) + (IF d.obj = k /\ d.op # "del" THEN 1 ELSE 0)
      BY <1>7 DEF PushFacts
    <3>2. k \in Object /\ refcount[k] \in Int BY <1>10 DEF IInv, HeapTyped
    <3> QED BY <3>1, <3>2, <1>5, <1>11
  <2>3. gc.phase # "scan" /\ gc'.phase # "scan" BY <1>1
  <2>4. \A c \in CallSet(calls) : \E e \in CallSet(calls') : e.obj = c.obj BY <1>9
  <2>5. /\ tag' \in [Object -> {"none", "root", "garbage", "dtor"}] /\ color' \in [Object -> {"black", "white", "grey", "purple"}]
        /\ \A k \in Object : tag[k] # "none" <=> tag'[k] # "none"
        /\ dtor_called' \subseteq used /\ free_called \subseteq free_called' /\ free_called' \subseteq used /\ nulled' \subseteq free_called'
        /\ \A k \in Object \ used : refcount'[k] = refcount[k]
    BY <1>2, <1>3, <1>11 DEF IInv, HeapTyped
  <2> QED BY <2>1, <2>2, <2>3, <2>4, <2>5, <1>2, <1>9, <1>11, <1>12, CallingKeeps
<1>14. GCTyped' BY <1>2 DEF IInv, GCTyped
<1>15. Garbage' = Garbage /\ Tagged("dtor")' = Tagged("dtor") BY <1>2 DEF Garbage, Tagged
<1>16. Phased' BY <1>1, <1>2, <1>9, <1>15 DEF IInv, Phased
<1>17. Isolated'
  <2> SUFFICES ASSUME NEW g \in Garbage
               PROVE  /\ variables'[g] = 0 /\ \A m \in used' : <<m, g>> \in prop' => m \in Garbage
                      /\ \A c \in CallSet(calls') :
                           c.obj = g => c.op \in {"del", "free", "gcfree"} /\ c \notin Below(calls')
    BY <1>15 DEF Isolated
  <2>1. g \in Object /\ tag[g] = "garbage" BY InGarbage
  <2>2. \A c \in CallSet(calls) : c.obj # g BY <2>1, <1>1, CollectTop
  <2>3. \A c \in CallSet(calls') : c.obj = g => c.op \in {"del", "free", "gcfree"} /\ c \notin Below(calls')
    BY <2>2, <1>5, <1>9
  <2> QED BY <2>3, <1>2 DEF IInv, Isolated
<1>18. Waiting' BY <1>8, <1>9, <1>15 DEF IInv, Waiting
<1>19. Freed'
  <2>1. \A k : Succ(k)' = Succ(k) BY <1>2 DEF Succ
  <2> QED BY <2>1, <1>2, <1>3, <1>4, <1>9 DEF IInv, Freed
<1>20. Quiet'
  <2>1. ASSUME ~gc.dtors PROVE Quiet'
    <3>1. \A k : k \in Garbage <=> k \in Garbage' BY <1>15
    <3>2. \A c \in Above(calls') : c.obj \in Garbage' BY <3>1, <1>3, <1>5, <1>9
    <3>3. \A m \in used : m \notin Garbage => (m \in free_called <=> m \in free_called') BY <1>2, <1>3
    <3> QED BY <2>1, <3>2, <3>3, <1>1, <1>2, <1>9, <1>13, QuietStep
  <2> QED BY <2>1, <1>1 DEF Quiet
<1> QED BY <1>13, <1>14, <1>16, <1>17, <1>18, <1>19, <1>20 DEF IInv

\* The object is held while its destructor runs; it is no garbage, which has
\* had its destructor called.
LEMMA DelDestructorKeeps ==
  ASSUME IInv, DelDestructor
  PROVE  IInv'
<1> DEFINE c == calls[1]
           n == calls[1].obj
           s == Tail(calls)
<1>0. PICK d, u : d = Call("dtor", n) /\ u = Call("undtor", n) OBVIOUS
<1>1. Top("del") /\ n \in HasDtor /\ n \notin nulled /\ n \notin dtor_called
      /\ dtor_called' = dtor_called \cup {n} /\ refcount' = [refcount EXCEPT ![n] = 2]
      /\ calls' = <<d, u>> \o s /\ UNCHANGED <<used, free_called, nulled, variables, prop, color, tag, gc>>
  BY <1>0 DEF DelDestructor, refVars
<1>2. /\ PushFacts(calls, c, s)
      /\ Shape(s) /\ MayPush(c, s) /\ s \in Seq(CallRec)
      /\ n \in used /\ n \in Object
      /\ CallSet(calls) = CallSet(s) \cup {c}
      /\ \A e \in CallSet(s) : e.op # "del" /\ (e.op = "free" => e.obj # n)
      /\ (s # <<>> => s[1].op \notin {"del", "undtor"})
      /\ ~Top("collect") /\ (Collects(s) <=> Collects(calls))
      /\ (Collects(calls) => Below(s) = Below(calls))
  BY <1>1, DelFacts
<1>3. c.op = "del" /\ n = c.obj BY <1>1 DEF Top
<1>4. refcount[n] = 0
  <2>1. CallFits(calls[1]) BY <1>1, TopIn DEF IInv, Top
  <2> QED BY <2>1, <1>3 DEF CallFits
<1>5. /\ d \in CallRec /\ d.op = "dtor" /\ d.obj = n /\ u \in CallRec /\ u.op = "undtor" /\ u.obj = n
  BY <1>0, <1>2 DEF Call, CallRec, Ops
<1>6. gc.phase = "destroy" /\ ~gc.dtors => n \in Garbage
  BY <1>2, QuietTop DEF IInv
<1> HIDE DEF c, n, s
<1>7. PICK t : PushFacts(t, u, s) /\ PushFacts(calls', d, t)
  <2>1. \E t : PushFacts(t, u, s) /\ PushFacts(<<d, u>> \o s, d, t) BY <1>2, <1>5, TwoFact
  <2> QED BY <2>1, <1>1
<1>8. CallSet(t) = CallSet(s) \cup {u} /\ CallSet(calls') = CallSet(s) \cup {u, d} /\ calls'[1] = d /\ calls' # <<>>
  BY <1>7 DEF PushFacts
<1>9. MayPush(u, s) /\ MayPush(d, t) /\ Shape(calls') /\ calls' \in Seq(CallRec)
  <2>1. MayPush(u, s) BY <1>2, <1>5 DEF MayPush
  <2>2. t # <<>> /\ t[1] = u /\ Shape(t) BY <2>1, <1>2, <1>7 DEF PushFacts
  <2>3. MayPush(d, t) BY <2>2, <1>2, <1>5, <1>8 DEF MayPush
  <2> QED BY <2>1, <2>2, <2>3, <1>7 DEF PushFacts
<1>10. (Collects(calls') <=> Collects(calls)) /\ (Collects(calls) => Below(calls') = Below(calls))
  BY <1>2, <1>5, <1>7 DEF PushFacts
<1>11. /\ gc.phase \in {"idle", "dtors", "destroy"} /\ (Collects(calls) <=> gc.phase # "idle")
       /\ (gc.phase = "idle" => Garbage = {} /\ Tagged("dtor") = {})
  BY <1>2, NotPassing DEF IInv
<1>12. n \notin Garbage
  <2>1. gc.phase # "idle" => (Garbage \cap HasDtor) \subseteq dtor_called BY <1>11 DEF IInv, Phased
  <2> QED BY <2>1, <1>1, <1>11
<1>13. refcount \in [Object -> Int] /\ dtor_called \subseteq used /\ free_called \subseteq used /\ nulled \subseteq free_called
  BY DEF IInv, HeapTyped
<1>14. refcount' \in [Object -> Int] /\ \A k \in Object : refcount'[k] = IF k = n THEN 2 ELSE refcount[k]
  <2>1. refcount' = [refcount EXCEPT ![n] = 2] /\ n \in Object /\ 2 \in Int BY <1>1, <1>2
  <2> QED BY <2>1, <1>13, SetCount
<1>15. ASSUME NEW e \in CallSet(calls') PROVE CallFits(e)'
  <2>1. CASE e \in CallSet(s)
    <3>1. CallFits(e) /\ e.op # "del" BY <2>1, <1>2 DEF IInv, Stacked
    <3>2. e.op = "free" => e.obj \notin nulled' BY <3>1, <1>1 DEF CallFits
    <3> QED BY <3>1, <3>2, <1>1, CallFitsKept
  <2>2. CASE e = u BY <2>2, <1>1, <1>2, <1>5, GCAssumption DEF CallFits
  <2>3. CASE e = d BY <2>3, <1>1, <1>2, <1>5, GCAssumption DEF CallFits
  <2> QED BY <2>1, <2>2, <2>3, <1>8
<1>16. HeapTyped' /\ Stacked' /\ Exact' /\ Scanned' /\ Rooted'
  <2>1. ~Top("undtor")' BY <1>5, <1>8 DEF Top
  <2>2. ASSUME NEW k \in used PROVE refcount'[k] + HoldsIn(calls, k) = refcount[k] + HoldsIn(calls', k)
    <3>1. HoldsIn(s, k) \in Nat /\ HoldsIn(calls, k) = HoldsIn(s, k) + (IF c.obj = k /\ c.op # "del" THEN 1 ELSE 0)
      BY <1>2 DEF PushFacts
    <3>2. HoldsIn(t, k) \in Nat /\ HoldsIn(t, k) = HoldsIn(s, k) + (IF u.obj = k /\ u.op # "del" THEN 1 ELSE 0)
      BY <1>7 DEF PushFacts
    <3>3. HoldsIn(calls', k) = HoldsIn(t, k) + (IF d.obj = k /\ d.op # "del" THEN 1 ELSE 0)
      BY <1>7 DEF PushFacts
    <3>4. HoldsIn(calls, k) = HoldsIn(s, k) BY <3>1, <1>3
    <3>5. k \in Object /\ refcount[k] \in Int BY <1>13 DEF IInv, HeapTyped
    <3>6. CASE k = n
      <4>2. HoldsIn(t, k) = HoldsIn(s, k) + 1 BY <3>2, <3>6, <1>5
      <4>3. HoldsIn(calls', k) = HoldsIn(t, k) + 1 BY <3>3, <3>6, <1>5
      <4>1. HoldsIn(calls', k) = HoldsIn(s, k) + 2 BY <4>2, <4>3, <3>1
      <4> QED BY <4>1, <3>1, <3>4, <3>5, <3>6, <1>4, <1>14
    <3>7. CASE k # n
      <4>2. HoldsIn(t, k) = HoldsIn(s, k) BY <3>1, <3>2, <3>7, <1>5
      <4>1. HoldsIn(calls', k) = HoldsIn(s, k) BY <4>2, <3>1, <3>3, <3>7, <1>5
      <4> QED BY <4>1, <3>4, <3>5, <3>7, <1>14
    <3> QED BY <3>6, <3>7
  <2>3. gc.phase # "scan" /\ gc'.phase # "scan" BY <1>1, <1>11
  <2>4. \A e \in CallSet(calls) : \E h \in CallSet(calls') : h.obj = e.obj BY <1>2, <1>3, <1>5, <1>8
  <2>5. /\ tag' \in [Object -> {"none", "root", "garbage", "dtor"}] /\ color' \in [Object -> {"black", "white", "grey", "purple"}]
        /\ \A k \in Object : tag[k] # "none" <=> tag'[k] # "none"
        /\ dtor_called' \subseteq used /\ free_called \subseteq free_called' /\ free_called' \subseteq used /\ nulled' \subseteq free_called'
        /\ \A k \in Object \ used : refcount'[k] = refcount[k]
    BY <1>1, <1>2, <1>13, <1>14 DEF IInv, HeapTyped
  <2> QED BY <2>1, <2>2, <2>3, <2>4, <2>5, <1>1, <1>9, <1>14, <1>15, CallingKeeps
<1>17. GCTyped' BY <1>1 DEF IInv, GCTyped
<1>18. Garbage' = Garbage /\ Tagged("dtor")' = Tagged("dtor") BY <1>1 DEF Garbage, Tagged
<1>19. Phased' BY <1>1, <1>10, <1>11, <1>18 DEF IInv, Phased
<1>20. Isolated'
  <2> SUFFICES ASSUME NEW g \in Garbage
               PROVE  /\ variables'[g] = 0 /\ \A m \in used' : <<m, g>> \in prop' => m \in Garbage
                      /\ \A e \in CallSet(calls') :
                           e.obj = g => e.op \in {"del", "free", "gcfree"} /\ e \notin Below(calls')
    BY <1>18 DEF Isolated
  <2>1. Below(calls') = Below(calls) BY <1>10, <1>11
  <2>2. \A e \in CallSet(calls') : e.obj = g => e \in CallSet(calls) BY <1>2, <1>5, <1>8, <1>12
  <2> QED BY <2>1, <2>2, <1>1 DEF IInv, Isolated
<1>21. Waiting'
  <2> SUFFICES ASSUME NEW k \in Tagged("dtor"), NEW e \in Below(calls') PROVE e.obj # k
    BY <1>18 DEF Waiting
  <2>1. Below(calls') = Below(calls) BY <1>10, <1>11
  <2> QED BY <2>1 DEF IInv, Waiting
<1>22. Freed'
  <2>1. \A k : Succ(k)' = Succ(k) BY <1>1 DEF Succ
  <2>2. \A e \in CallSet(calls) : e.op # "del" => e \in CallSet(calls') BY <1>2, <1>3, <1>8
  <2>3. \A k : Call("free", k).op = "free" /\ Call("gcfree", k).op = "gcfree" BY DEF Call
  <2>4. \A k \in free_called' : k \in nulled' \/ Call("free", k) \in CallSet(calls') BY <2>2, <2>3, <1>1 DEF IInv, Freed
  <2>5. \A k \in nulled' : tag'[k] = "garbage" /\ (Succ(k)' = {} \/ Call("gcfree", k) \in CallSet(calls'))
    BY <2>1, <2>2, <2>3, <1>1 DEF IInv, Freed
  <2> QED BY <2>4, <2>5 DEF Freed
<1>23. Quiet' BY <1>1, <1>6, <1>11, <1>12 DEF Quiet
<1> QED BY <1>16, <1>17, <1>19, <1>20, <1>21, <1>22, <1>23 DEF IInv

\* The memory of an object goes when its properties are released.
LEMMA FreeDoneKeeps ==
  ASSUME IInv, FreeDone
  PROVE  IInv'
<1> DEFINE c == calls[1]
           n == calls[1].obj
           s == Tail(calls)
<1>1. calls # <<>> /\ c.op = "free" /\ Succ(n) = {} /\ Efree({n}) /\ calls' = s /\ UNCHANGED <<variables, prop, gc>>
      /\ ~Top("collect") /\ ~Top("del") /\ n = c.obj
  BY DEF FreeDone, Top, refVars
<1>2. PushFacts(calls, c, s) BY <1>1, PopFact DEF IInv, Stacked
<1>3. CallFits(c) BY <1>1, TopIn DEF IInv
<1>4. gc.phase = "destroy" /\ ~gc.dtors => n \in Garbage BY <1>1, QuietTop DEF IInv
<1>5. \A d \in CallSet(calls) : d.op # "del" BY <1>1, NoDel DEF IInv
<1>6. s = Tail(calls) OBVIOUS
<1> HIDE DEF c, n, s
<1>7. Shape(s) /\ MayPush(c, s) /\ s \in Seq(CallRec) /\ CallSet(calls) = CallSet(s) \cup {c}
  BY <1>2 DEF PushFacts, IInv, Stacked
<1>8. \A d \in CallSet(s) : d \in CallSet(calls) /\ d.obj # n /\ d.op # "del" BY <1>1, <1>5, <1>7 DEF MayPush
<1>9. n \in used /\ n \in Object /\ n \notin nulled /\ variables[n] = 0 /\ \A m \in used : <<m, n>> \notin prop
  BY <1>1, <1>3 DEF CallFits, IInv, HeapTyped
<1>10. (\A m : <<m, n>> \notin prop) /\ (\A m : <<n, m>> \notin prop)
  <2>1. \A m : <<m, n>> \notin prop BY <1>9, PropTyped DEF IInv
  <2>2. \A m : <<n, m>> \notin prop BY <1>1, InSucc DEF IInv
  <2> QED BY <2>1, <2>2
<1>11. /\ used' = used \ {n} /\ dtor_called' = dtor_called \ {n} /\ free_called' = free_called \ {n} /\ nulled' = nulled \ {n}
       /\ refcount' = [k \in Object |-> IF k \in {n} THEN 0 ELSE refcount[k]]
       /\ tag' = [k \in Object |-> IF k \in {n} THEN "none" ELSE tag[k]]
       /\ color' = [k \in Object |-> IF k \in {n} THEN "black" ELSE color[k]]
  BY <1>1 DEF Efree
<1>12. /\ \A k \in Object : k # n => refcount'[k] = refcount[k] /\ tag'[k] = tag[k] /\ color'[k] = color[k]
       /\ refcount'[n] = 0 /\ tag'[n] = "none" /\ color'[n] = "black"
  BY <1>9, <1>11
<1>13. HeapTyped'
  <2>1. \A x \in prop : x \in used' \X used'
    <3> SUFFICES ASSUME NEW x \in prop PROVE x \in used' \X used' OBVIOUS
    <3>1. x \in used \X used BY DEF IInv, HeapTyped
    <3>2. x = <<x[1], x[2]>> /\ x[1] \in used /\ x[2] \in used BY <3>1
    <3>3. x[1] # n /\ x[2] # n BY <3>2, <1>10
    <3>4. x[1] \in used' /\ x[2] \in used' BY <3>2, <3>3, <1>11
    <3> QED BY <3>2, <3>4
  <2>2. refcount' \in [Object -> Int] BY <1>11 DEF IInv, HeapTyped
  <2>3. color' \in [Object -> {"black", "white", "grey", "purple"}] /\ tag' \in [Object -> {"none", "root", "garbage", "dtor"}]
    BY <1>11 DEF IInv, HeapTyped
  <2>4. ASSUME NEW k \in Object \ used' PROVE variables'[k] = 0 /\ refcount'[k] = 0 /\ tag'[k] = "none"
    <3>1. CASE k = n BY <3>1, <1>1, <1>9, <1>12
    <3>2. CASE k # n
      <4>1. k \notin used BY <3>2, <1>11
      <4> QED BY <3>2, <4>1, <1>1, <1>12 DEF IInv, HeapTyped
    <3> QED BY <3>1, <3>2
  <2> QED BY <2>1, <2>2, <2>3, <2>4, <1>1, <1>11 DEF IInv, HeapTyped
<1>14. GCTyped'
  <2>1. gc.work = {} /\ gc.black = {} BY <1>1, NotPassing DEF IInv
  <2> QED BY <2>1, <1>1 DEF IInv, GCTyped
<1>15. Stacked'
  <2>1. ASSUME NEW d \in CallSet(s) PROVE CallFits(d)'
    <3>1. CallFits(d) /\ d.obj # n /\ d.op # "del" BY <1>8 DEF IInv, Stacked
    <3>2. d.op = "gcdtor" => tag'[d.obj] = "root"
      <4> SUFFICES ASSUME d.op = "gcdtor" PROVE tag'[d.obj] = "root" OBVIOUS
      <4>1. d.obj \in used /\ tag[d.obj] = "root" BY <3>1 DEF CallFits
      <4>2. d.obj \in Object BY <4>1 DEF IInv, HeapTyped
      <4> QED BY <3>1, <4>1, <4>2, <1>12
    <3> QED BY <3>1, <3>2, <1>1, <1>11 DEF CallFits
  <2>2. ~Top("undtor")' BY <1>1, <1>7 DEF Top, MayPush
  <2> QED BY <2>1, <2>2, <1>1, <1>7 DEF Stacked
<1>16. gc.phase # "scan" /\ gc'.phase # "scan" BY <1>1, NotPassing DEF IInv
<1>17. Exact'
  <2> SUFFICES ASSUME NEW k \in used' PROVE refcount'[k] = Total(k)' BY <1>16 DEF Exact
  <2>1. In(k)' = In(k) BY <1>1 DEF In
  <2>2. k \in used /\ k # n /\ k \in Object BY <1>11 DEF IInv, HeapTyped
  <2>3. refcount[k] = variables[k] + Cardinality(In(k)) + HoldsIn(calls, k) BY <2>2, <1>16, Counts
  <2>4. HoldsIn(s, k) \in Nat /\ HoldsIn(calls, k) = HoldsIn(s, k) + (IF c.obj = k /\ c.op # "del" THEN 1 ELSE 0)
    BY <1>2 DEF PushFacts
  <2>5. HoldsIn(calls, k) = HoldsIn(s, k) BY <2>2, <2>4, <1>1
  <2> QED BY <2>1, <2>2, <2>3, <2>5, <1>1, <1>12 DEF Total
<1>18. \A k \in Object : tag'[k] # "none" => k # n /\ tag'[k] = tag[k] BY <1>12
<1>19. /\ (\A k : k \in Garbage' => k \in Garbage /\ k # n)
       /\ (\A k : k \in Garbage /\ k # n => k \in Garbage')
  BY <1>12, <1>18, InGarbage, InGarbageNext
<1>20. \A k : k \in Tagged("dtor")' => k \in Tagged("dtor") BY <1>18 DEF Tagged
<1>21. (Collects(calls') <=> Collects(calls)) /\ (Collects(calls) => Below(calls') = Below(calls))
  BY <1>1, <1>2 DEF PushFacts
<1>22. /\ gc.phase \in {"idle", "dtors", "destroy"} /\ (Collects(calls) <=> gc.phase # "idle")
       /\ (gc.phase = "idle" => Garbage = {} /\ Tagged("dtor") = {} /\ nulled = {})
       /\ gc.work = {} /\ gc.black = {}
       /\ \A k \in Object : color[k] = IF tag[k] \in {"root", "dtor"} THEN "purple" ELSE "black"
  BY <1>1, NotPassing DEF IInv
<1>23. Phased'
  <2>1. Garbage' # {} => gc'.phase \in {"collect", "dtors", "destroy"} BY <1>1, <1>19, <1>22
  <2>2. Tagged("dtor")' # {} => gc'.phase = "dtors"
    <3>1. Tagged("dtor")' # {} => Tagged("dtor") # {} BY <1>20
    <3> QED BY <3>1, <1>1 DEF IInv, Phased
  <2>3. nulled' # {} => gc'.phase = "destroy"
    <3>1. nulled' # {} => nulled # {} BY <1>11
    <3> QED BY <3>1, <1>1 DEF IInv, Phased
  <2>4. gc'.phase \in {"dtors", "destroy"} => (Garbage' \cap HasDtor) \subseteq dtor_called'
    <3>1. gc.phase \in {"dtors", "destroy"} => (Garbage \cap HasDtor) \subseteq dtor_called BY DEF IInv, Phased
    <3> QED BY <3>1, <1>1, <1>11, <1>19
  <2>5. \A k \in Object : color'[k] = IF tag'[k] \in {"root", "dtor"} THEN "purple" ELSE "black" BY <1>12, <1>22
  <2>6. gc'.work = {} /\ gc'.black = {} /\ gc'.phase \notin {"mark", "scan", "collect"} /\ (gc'.phase = "idle" <=> ~Collects(calls'))
    BY <1>1, <1>21, <1>22
  <2>7. gc'.phase = "dtors" => gc'.dtors BY <1>1 DEF IInv, Phased
  <2> QED BY <2>1, <2>2, <2>3, <2>4, <2>5, <2>6, <2>7 DEF Phased
<1>24. Isolated'
  <2> SUFFICES ASSUME NEW g \in Garbage'
               PROVE  /\ variables'[g] = 0 /\ \A m \in used' : <<m, g>> \in prop' => m \in Garbage'
                      /\ \A d \in CallSet(calls') :
                           d.obj = g => d.op \in {"del", "free", "gcfree"} /\ d \notin Below(calls')
    BY DEF Isolated
  <2>1. g \in Garbage BY <1>19
  <2>2. Collects(calls) BY <2>1, <1>22
  <2>3. \A m \in used' : <<m, g>> \in prop' => m \in Garbage'
    <3> SUFFICES ASSUME NEW m \in used', <<m, g>> \in prop PROVE m \in Garbage' BY <1>1
    <3>1. m \in Garbage BY <2>1, <1>11 DEF IInv, Isolated
    <3> QED BY <3>1, <1>11, <1>19
  <2>4. variables[g] = 0 /\ \A d \in CallSet(calls) : d.obj = g => d.op \in {"del", "free", "gcfree"} /\ d \notin Below(calls)
    BY <2>1 DEF IInv, Isolated
  <2> QED BY <2>2, <2>3, <2>4, <1>1, <1>8, <1>21
<1>25. Waiting'
  <2> SUFFICES ASSUME NEW k \in Tagged("dtor")', NEW d \in Below(calls') PROVE d.obj # k BY DEF Waiting
  <2>1. k \in Tagged("dtor") BY <1>20
  <2>2. Below(calls') = Below(calls) BY <2>1, <1>21, <1>22
  <2> QED BY <2>1, <2>2 DEF IInv, Waiting
<1>26. Freed'
  <2>1. \A k : Succ(k)' = Succ(k) BY <1>1 DEF Succ
  <2>2. \A k : /\ Call("free", k).op = "free" /\ Call("gcfree", k).op = "gcfree"
               /\ Call("free", k).obj = k /\ Call("gcfree", k).obj = k
    BY DEF Call
  <2>3. ASSUME NEW k \in free_called' PROVE k \in nulled' \/ Call("free", k) \in CallSet(calls')
    <3>1. k # n /\ k \in free_called BY <1>11
    <3>2. k \in nulled \/ Call("free", k) \in CallSet(calls) BY <3>1 DEF IInv, Freed
    <3> QED BY <3>1, <3>2, <2>2, <1>1, <1>7, <1>11
  <2>4. ASSUME NEW k \in nulled' PROVE tag'[k] = "garbage" /\ (Succ(k)' = {} \/ Call("gcfree", k) \in CallSet(calls'))
    <3>1. k # n /\ k \in nulled /\ k \in Object BY <1>11 DEF IInv, HeapTyped
    <3>2. tag[k] = "garbage" /\ (Succ(k) = {} \/ Call("gcfree", k) \in CallSet(calls)) BY <3>1 DEF IInv, Freed
    <3> QED BY <3>1, <3>2, <2>1, <2>2, <1>1, <1>7, <1>12
  <2> QED BY <2>3, <2>4 DEF Freed
<1>27. Scanned' BY <1>16 DEF Scanned
<1>28. Rooted'
  <2>1. HeapTyped /\ used \subseteq Reach(Sources) BY DEF IInv, Rooted
  <2>2. ASSUME NEW k \in used, k \in Sources, k \in used' PROVE k \in Sources'
    <3>1. k # n /\ k \in Object BY <2>2, <1>11 DEF IInv, HeapTyped
    <3>2. CASE k \in Object /\ variables[k] > 0 BY <3>2, <1>1, <1>13, InSourcesNext
    <3>3. CASE \E d \in CallSet(calls) : d.obj = k
      <4>1. \E d \in CallSet(calls') : d.obj = k BY <3>1, <3>3, <1>1, <1>7
      <4> QED BY <4>1, <1>13, InSourcesNext
    <3>4. CASE \E m \in free_called : <<m, k>> \in prop
      <4>1. \E m \in free_called' : <<m, k>> \in prop' BY <3>4, <1>1, <1>10, <1>11
      <4> QED BY <4>1, <1>13, InSourcesNext
    <3>5. CASE k \in Object /\ tag[k] # "none"
      <4>1. tag'[k] # "none" BY <3>1, <3>5, <1>12
      <4> QED BY <3>1, <4>1, <1>13, InSourcesNext
    <3> QED BY <2>1, <2>2, <3>2, <3>3, <3>4, <3>5, InSources
  <2>3. ASSUME NEW m \in used, NEW k \in used, k \in Visited(m) PROVE k \in Visited(m)'
    <3>1. m \notin free_called /\ <<m, k>> \in prop BY <2>1, <2>3, InVisited
    <3> QED BY <3>1, <1>1, <1>11, <1>13, InVisitedNext
  <2>4. \A m \in used : m \notin used' => Visited(m) = {}
    <3> SUFFICES ASSUME NEW m \in used, m \notin used' PROVE Visited(m) = {} OBVIOUS
    <3>1. m = n BY <1>11
    <3> QED BY <3>1, <1>1 DEF Visited
  <2>5. used' \subseteq used BY <1>11
  <2>6. used' \subseteq Reach(Sources)' BY <2>1, <2>2, <2>3, <2>4, <2>5, <1>13, RootedKept
  <2> QED BY <2>6, <1>16 DEF Rooted
<1>29. Quiet'
  <2>1. ASSUME gc.phase = "destroy", ~gc.dtors PROVE Quiet'
    <3>1. n \in Garbage BY <2>1, <1>4
    <3>2. \A k \in Object : tag'[k] = "garbage" => tag[k] = "garbage" BY <1>18
    <3>3. \A k \in used' : tag[k] = "garbage" => tag'[k] = "garbage" BY <1>11, <1>12 DEF IInv, HeapTyped
    <3>4. \A m \in used : m \notin Garbage => (m \in free_called <=> m \in free_called') BY <3>1, <1>11
    <3>5. \A d \in CallSet(calls') : d.obj \in Garbage => d.obj \in used'
      <4>1. \A k \in Garbage : k \in used BY InGarbage DEF IInv, HeapTyped
      <4> QED BY <4>1, <1>1, <1>8, <1>11
    <3>6. calls' = Tail(calls) /\ used' \subseteq used BY <1>1, <1>6, <1>11
    <3> QED BY <2>1, <3>2, <3>3, <3>4, <3>5, <3>6, <1>1, <1>13, QuietPop
  <2> QED BY <2>1, <1>1, QuietRest
<1> QED BY <1>13, <1>14, <1>15, <1>17, <1>23, <1>24, <1>25, <1>26, <1>27, <1>28, <1>29 DEF IInv

\* Garbage whose destructor is called is in the buffer again, and held by the
\* collection if the destructor was not called in the meantime.
LEMMA DestructorCall ==
  ASSUME IInv, Top("collect"), NEW n \in Object, tag[n] = "dtor",
         \/ n \in dtor_called /\ UNCHANGED <<dtor_called, refcount, calls>>
         \/ /\ dtor_called' = dtor_called \cup {n}
            /\ refcount' = [refcount EXCEPT ![n] = @ + 2]
            /\ calls' = <<Call("dtor", n), Call("gcdtor", n)>> \o calls
  PROVE  /\ calls' \in Seq(CallRec) /\ Shape(calls') /\ Collects(calls') /\ Below(calls') = Below(calls)
         /\ CallSet(calls) \subseteq CallSet(calls')
         /\ \A e \in CallSet(calls') : e \in CallSet(calls) \/ (e.obj = n /\ e.op \in {"dtor", "gcdtor"})
         /\ calls' # <<>> /\ calls'[1].op # "undtor"
         /\ dtor_called \subseteq dtor_called' /\ dtor_called' \subseteq used
         /\ refcount' \in [Object -> Int] /\ \A k \in Object \ used : refcount'[k] = refcount[k]
         /\ \A k \in used : refcount'[k] + HoldsIn(calls, k) = refcount[k] + HoldsIn(calls', k)
<1>1. /\ calls # <<>> /\ calls[1].op = "collect" /\ Collects(calls)
      /\ Below(calls) = CallSet(calls) /\ \A c \in CallSet(calls) : c.op # "del" /\ c.obj # n
  BY CollectTop
<1>2. calls \in Seq(CallRec) /\ Shape(calls) BY DEF IInv, Stacked
<1>3. refcount \in [Object -> Int] /\ dtor_called \subseteq used /\ n \in used /\ used \subseteq Object BY DEF IInv, HeapTyped
<1>4. CASE n \in dtor_called /\ UNCHANGED <<dtor_called, refcount, calls>>
  BY <1>1, <1>2, <1>3, <1>4
<1>5. CASE /\ dtor_called' = dtor_called \cup {n} /\ refcount' = [refcount EXCEPT ![n] = @ + 2]
           /\ calls' = <<Call("dtor", n), Call("gcdtor", n)>> \o calls
  <2>1. PICK d, g : d = Call("dtor", n) /\ g = Call("gcdtor", n) OBVIOUS
  <2>2. /\ d \in CallRec /\ d.op = "dtor" /\ d.obj = n /\ g \in CallRec /\ g.op = "gcdtor" /\ g.obj = n
    BY <2>1 DEF Call, CallRec, Ops
  <2>3. calls' = <<d, g>> \o calls BY <1>5, <2>1
  <2>4. PICK t : PushFacts(t, g, calls) /\ PushFacts(calls', d, t)
    <3>1. \E t : PushFacts(t, g, calls) /\ PushFacts(<<d, g>> \o calls, d, t) BY <1>2, <2>2, TwoFact
    <3> QED BY <3>1, <2>3
  <2>5. CallSet(t) = CallSet(calls) \cup {g} /\ CallSet(calls') = CallSet(calls) \cup {g, d} /\ calls'[1] = d /\ calls' # <<>>
        /\ t # <<>> /\ t[1] = g
    BY <2>4 DEF PushFacts
  <2>6. Shape(calls') /\ calls' \in Seq(CallRec)
    <3>1. MayPush(g, calls) BY <1>1, <2>2 DEF MayPush
    <3>2. Shape(t) BY <3>1, <1>2, <2>4 DEF PushFacts
    <3>3. MayPush(d, t) BY <1>1, <2>2, <2>5 DEF MayPush
    <3> QED BY <3>2, <3>3, <2>4 DEF PushFacts
  <2>7. Collects(calls') /\ Below(calls') = Below(calls) BY <1>1, <2>4 DEF PushFacts
  <2>8. refcount' \in [Object -> Int] /\ \A k \in Object : refcount'[k] = IF k = n THEN refcount[k] + 2 ELSE refcount[k]
    BY <1>3, <1>5
  <2>9. ASSUME NEW k \in used PROVE refcount'[k] + HoldsIn(calls, k) = refcount[k] + HoldsIn(calls', k)
    <3>1. HoldsIn(calls, k) \in Nat /\ HoldsIn(t, k) = HoldsIn(calls, k) + (IF g.obj = k /\ g.op # "del" THEN 1 ELSE 0)
      BY <2>4 DEF PushFacts
    <3>2. HoldsIn(t, k) \in Nat /\ HoldsIn(calls', k) = HoldsIn(t, k) + (IF d.obj = k /\ d.op # "del" THEN 1 ELSE 0)
      BY <2>4 DEF PushFacts
    <3>3. k \in Object /\ refcount[k] \in Int BY <1>3
    <3>4. CASE k = n
      <4>1. HoldsIn(t, k) = HoldsIn(calls, k) + 1 BY <3>1, <3>4, <2>2
      <4>2. HoldsIn(calls', k) = HoldsIn(t, k) + 1 BY <3>2, <3>4, <2>2
      <4> QED BY <4>1, <4>2, <3>1, <3>3, <3>4, <2>8
    <3>5. CASE k # n
      <4>1. HoldsIn(t, k) = HoldsIn(calls, k) BY <3>1, <3>5, <2>2
      <4>2. HoldsIn(calls', k) = HoldsIn(t, k) BY <3>2, <3>5, <2>2
      <4> QED BY <4>1, <4>2, <3>1, <3>3, <3>5, <2>8
    <3> QED BY <3>4, <3>5
  <2>10. \A e \in CallSet(calls') : e \in CallSet(calls) \/ (e.obj = n /\ e.op \in {"dtor", "gcdtor"}) BY <2>2, <2>5
  <2>11. calls' # <<>> /\ calls'[1].op # "undtor" /\ CallSet(calls) \subseteq CallSet(calls') BY <2>2, <2>5
  <2> QED BY <1>3, <1>5, <2>6, <2>7, <2>8, <2>9, <2>10, <2>11
<1> QED BY <1>4, <1>5

LEMMA gc_call_destructorsKeeps ==
  ASSUME IInv, gc_call_destructors
  PROVE  IInv'
<1>1. Top("collect") /\ gc.phase = "dtors" BY DEF gc_call_destructors, Phase
<1>2. PICK n \in Tagged("dtor") :
        /\ tag' = [tag EXCEPT ![n] = "root"]
        /\ \/ n \in dtor_called /\ UNCHANGED <<dtor_called, refcount, calls>>
           \/ /\ dtor_called' = dtor_called \cup {n}
              /\ refcount' = [refcount EXCEPT ![n] = @ + 2]
              /\ calls' = <<Call("dtor", n), Call("gcdtor", n)>> \o calls
        /\ UNCHANGED <<used, free_called, nulled, variables, prop, color, gc>>
  BY DEF gc_call_destructors, refVars
<1>3. n \in Object /\ tag[n] = "dtor" /\ n \in used BY <1>2 DEF Tagged, IInv, HeapTyped
<1>4. /\ calls' \in Seq(CallRec) /\ Shape(calls') /\ Collects(calls') /\ Below(calls') = Below(calls)
      /\ CallSet(calls) \subseteq CallSet(calls')
      /\ \A e \in CallSet(calls') : e \in CallSet(calls) \/ (e.obj = n /\ e.op \in {"dtor", "gcdtor"})
      /\ calls' # <<>> /\ calls'[1].op # "undtor"
      /\ dtor_called \subseteq dtor_called' /\ dtor_called' \subseteq used
      /\ refcount' \in [Object -> Int] /\ \A k \in Object \ used : refcount'[k] = refcount[k]
      /\ \A k \in used : refcount'[k] + HoldsIn(calls, k) = refcount[k] + HoldsIn(calls', k)
  BY <1>1, <1>2, <1>3, DestructorCall
<1>5. /\ Collects(calls) /\ Below(calls) = CallSet(calls) /\ \A c \in CallSet(calls) : c.op # "del" /\ c.obj # n
  BY <1>1, <1>3, CollectTop
<1>6. /\ tag \in [Object -> {"none", "root", "garbage", "dtor"}] /\ color \in [Object -> {"black", "white", "grey", "purple"}]
      /\ free_called \subseteq used /\ nulled \subseteq free_called
  BY DEF IInv, HeapTyped
<1>7. /\ tag' \in [Object -> {"none", "root", "garbage", "dtor"}]
      /\ \A k \in Object : tag'[k] = IF k = n THEN "root" ELSE tag[k]
  BY <1>2, <1>3, <1>6
<1>8. ASSUME NEW e \in CallSet(calls') PROVE CallFits(e)'
  <2>1. CASE e \in CallSet(calls)
    <3>1. CallFits(e) /\ e.op # "del" BY <2>1, <1>5 DEF IInv, Stacked
    <3>2. e.op = "free" => e.obj \notin nulled' BY <3>1, <1>2 DEF CallFits
    <3>3. e.op = "gcdtor" => tag'[e.obj] = tag[e.obj]
      <4> SUFFICES ASSUME e.op = "gcdtor" PROVE tag'[e.obj] = tag[e.obj] OBVIOUS
      <4>1. e.obj \in Object BY <3>1 DEF CallFits, IInv, HeapTyped
      <4> QED BY <4>1, <2>1, <1>5, <1>7
    <3> QED BY <3>1, <3>2, <3>3, <1>2, <1>4, CallFitsKept
  <2>2. CASE e.obj = n /\ e.op \in {"dtor", "gcdtor"} BY <2>2, <1>2, <1>3, <1>7, GCAssumption DEF CallFits
  <2> QED BY <2>1, <2>2, <1>4
<1>9. HeapTyped' /\ Stacked' /\ Exact' /\ Scanned' /\ Rooted'
  <2>1. ~Top("undtor")' BY <1>4 DEF Top
  <2>2. gc.phase # "scan" /\ gc'.phase # "scan" BY <1>1, <1>2
  <2>3. \A c \in CallSet(calls) : \E d \in CallSet(calls') : d.obj = c.obj BY <1>4
  <2>4. \A k \in Object : tag[k] # "none" <=> tag'[k] # "none" BY <1>3, <1>7
  <2>5. color' \in [Object -> {"black", "white", "grey", "purple"}] /\ free_called \subseteq free_called'
        /\ free_called' \subseteq used /\ nulled' \subseteq free_called' /\ UNCHANGED <<used, variables, prop>>
    BY <1>2, <1>6
  <2> QED BY <2>1, <2>2, <2>3, <2>4, <2>5, <1>4, <1>7, <1>8, CallingKeeps
<1>10. GCTyped' BY <1>2 DEF IInv, GCTyped
<1>11. /\ \A k : k \in Garbage' <=> k \in Garbage
       /\ \A k : k \in Tagged("dtor")' => k \in Tagged("dtor")
  <2>1. \A k : k \in Garbage' <=> k \in Garbage BY <1>3, <1>7, InGarbage, InGarbageNext
  <2>2. \A k : k \in Tagged("dtor")' => k \in Tagged("dtor") BY <1>7 DEF Tagged
  <2> QED BY <2>1, <2>2
<1>12. Phased'
  <2>1. \A k \in Object : color'[k] = IF tag'[k] \in {"root", "dtor"} THEN "purple" ELSE "black"
    <3>1. \A k \in Object : color[k] = IF tag[k] \in {"root", "dtor"} THEN "purple" ELSE "black" BY <1>1 DEF IInv, Phased
    <3> QED BY <3>1, <1>2, <1>3, <1>7
  <2>2. (Garbage' \cap HasDtor) \subseteq dtor_called'
    <3>1. (Garbage \cap HasDtor) \subseteq dtor_called BY <1>1 DEF IInv, Phased
    <3> QED BY <3>1, <1>4, <1>11
  <2>3. nulled' # {} => gc'.phase = "destroy" BY <1>2 DEF IInv, Phased
  <2>4. gc'.work = {} /\ gc'.black = {} BY <1>1, <1>2 DEF IInv, Phased
  <2>5. gc'.dtors BY <1>1, <1>2 DEF IInv, Phased
  <2> QED BY <2>1, <2>2, <2>3, <2>4, <2>5, <1>1, <1>2, <1>4 DEF Phased
<1>13. Isolated'
  <2> SUFFICES ASSUME NEW g \in Garbage'
               PROVE  /\ variables'[g] = 0 /\ \A m \in used' : <<m, g>> \in prop' => m \in Garbage'
                      /\ \A d \in CallSet(calls') :
                           d.obj = g => d.op \in {"del", "free", "gcfree"} /\ d \notin Below(calls')
    BY DEF Isolated
  <2>1. g \in Garbage /\ g # n BY <1>3, <1>11, InGarbage
  <2>2. /\ variables[g] = 0 /\ \A m \in used : <<m, g>> \in prop => m \in Garbage
        /\ \A d \in CallSet(calls) : d.obj = g => d.op \in {"del", "free", "gcfree"} /\ d \notin Below(calls)
    BY <2>1 DEF IInv, Isolated
  <2>3. \A d \in CallSet(calls') : d.obj = g => d \in CallSet(calls) BY <2>1, <1>4
  <2> QED BY <2>2, <2>3, <1>2, <1>4, <1>11
<1>14. Waiting'
  <2> SUFFICES ASSUME NEW k \in Tagged("dtor")', NEW d \in Below(calls') PROVE d.obj # k BY DEF Waiting
  <2>1. k \in Tagged("dtor") /\ d \in Below(calls) BY <1>4, <1>11
  <2> QED BY <2>1 DEF IInv, Waiting
<1>15. Freed'
  <2>1. \A k : Succ(k)' = Succ(k) BY <1>2 DEF Succ
  <2>2. \A k \in nulled' : tag'[k] = "garbage"
    <3> SUFFICES ASSUME NEW k \in nulled PROVE tag'[k] = "garbage" BY <1>2
    <3>1. tag[k] = "garbage" /\ k \in Object BY DEF IInv, Freed, HeapTyped
    <3> QED BY <3>1, <1>3, <1>7
  <2>3. \A k \in free_called' : k \in nulled' \/ Call("free", k) \in CallSet(calls') BY <1>2, <1>4 DEF IInv, Freed
  <2>4. \A k \in nulled' : Succ(k)' = {} \/ Call("gcfree", k) \in CallSet(calls') BY <2>1, <1>2, <1>4 DEF IInv, Freed
  <2> QED BY <2>2, <2>3, <2>4 DEF Freed
<1>16. Quiet' BY <1>1, <1>2 DEF Quiet
<1> QED BY <1>9, <1>10, <1>12, <1>13, <1>14, <1>15, <1>16 DEF IInv

-----------------------------------------------------------------------------
(* The collection: what it does with the garbage it has found.             *)

\* A step of the collection that changes its phase only.
LEMMA PhaseKeeps ==
  ASSUME IInv, Top("collect"), gc.phase # "scan", gc'.phase # "scan",
         UNCHANGED <<used, free_called, dtor_called, nulled, variables, prop, refcount, color, tag, calls>>
  PROVE  /\ HeapTyped' /\ Stacked' /\ Exact' /\ Scanned' /\ Rooted'
         /\ Isolated' /\ Waiting' /\ Freed' /\ Garbage' = Garbage /\ Tagged("dtor")' = Tagged("dtor")
<1>1. /\ calls # <<>> /\ calls[1].op = "collect" /\ \A c \in CallSet(calls) : c.op # "del"
  BY CollectTop
<1>2. HeapTyped' /\ Stacked' /\ Exact' /\ Scanned' /\ Rooted'
  <2>1. \A c \in CallSet(calls') : CallFits(c)'
    <3> SUFFICES ASSUME NEW c \in CallSet(calls) PROVE CallFits(c)' OBVIOUS
    <3>1. CallFits(c) BY DEF IInv, Stacked
    <3> QED BY <3>1 DEF CallFits
  <2>2. ~Top("undtor")' BY <1>1 DEF Top
  <2>3. calls' \in Seq(CallRec) /\ Shape(calls') BY DEF IInv, Stacked
  <2>4. /\ tag' \in [Object -> {"none", "root", "garbage", "dtor"}] /\ color' \in [Object -> {"black", "white", "grey", "purple"}]
        /\ dtor_called' \subseteq used /\ free_called \subseteq free_called' /\ free_called' \subseteq used /\ nulled' \subseteq free_called'
        /\ refcount' \in [Object -> Int]
    BY DEF IInv, HeapTyped
  <2> QED BY <2>1, <2>2, <2>3, <2>4, CallingKeeps
<1>3. Garbage' = Garbage /\ Tagged("dtor")' = Tagged("dtor") BY DEF Garbage, Tagged
<1>4. Isolated' BY <1>3 DEF IInv, Isolated
<1>5. Waiting' BY <1>3 DEF IInv, Waiting
<1>6. Freed'
  <2>1. \A k : Succ(k)' = Succ(k) BY DEF Succ
  <2> QED BY <2>1 DEF IInv, Freed
<1> QED BY <1>2, <1>3, <1>4, <1>5, <1>6

LEMMA NoDestructorsKeeps ==
  ASSUME IInv, NoDestructors
  PROVE  IInv'
<1>1. Top("collect") /\ gc.phase = "collect" /\ gc' = [gc EXCEPT !.phase = "destroy"] /\ ~gc.dtors
      /\ UNCHANGED <<used, free_called, dtor_called, nulled, variables, prop, refcount, color, tag, calls>>
  BY DEF NoDestructors, Phase, gcFrame, objectVars, refVars
<1>2. gc'.phase = "destroy" /\ ~gc'.dtors /\ gc'.work = gc.work /\ gc'.black = gc.black /\ GCTyped'
  BY <1>1 DEF IInv, GCTyped
<1>3. /\ HeapTyped' /\ Stacked' /\ Exact' /\ Scanned' /\ Rooted'
      /\ Isolated' /\ Waiting' /\ Freed' /\ Garbage' = Garbage /\ Tagged("dtor")' = Tagged("dtor")
  BY <1>1, <1>2, PhaseKeeps
<1>4. Phased'
  <2>1. (Garbage \cap HasDtor) \subseteq dtor_called BY <1>1 DEF IInv, Phased
  <2>2. Tagged("dtor") = {} BY <1>1 DEF IInv, Phased
  <2>3. Collects(calls) BY <1>1, CollectTop
  <2>4. gc.work = {} /\ gc.black = {} /\ \A k \in Object : color[k] = IF tag[k] \in {"root", "dtor"} THEN "purple" ELSE "black"
    BY <1>1 DEF IInv, Phased
  <2> QED BY <2>1, <2>2, <2>3, <2>4, <1>1, <1>2, <1>3 DEF Phased
<1>5. Quiet'
  <2>1. used \subseteq Garbage \cup Reach(Outside) /\ HeapTyped /\ Isolated BY <1>1 DEF IInv, Quiet
  <2>2. \A m \in used : m \notin Garbage => \A k \in Visited(m) : k \in Visited(m)' BY <1>1 DEF Visited, Succ
  <2>3. \A k \in Outside : k \in Outside'
    <3>1. Outside' = Outside BY <1>1, <1>3 DEF Outside, Variables, Held, Succ
    <3> QED BY <3>1
  <2>4. \A k \in used' : k \in Garbage => k \in Garbage' BY <1>3
  <2>5. used' \subseteq used BY <1>1
  <2>6. used' \subseteq (Garbage \cup Reach(Outside))' BY <2>1, <2>2, <2>3, <2>4, <2>5, <1>3, OutsideKept
  <2>7. Above(calls') = {} BY <1>1, CollectTop
  <2> QED BY <2>6, <2>7 DEF Quiet
<1> QED BY <1>2, <1>3, <1>4, <1>5 DEF IInv

LEMMA DestructorsCalledKeeps ==
  ASSUME IInv, DestructorsCalled
  PROVE  IInv'
<1>1. Top("collect") /\ gc.phase = "dtors" /\ gc' = [gc EXCEPT !.phase = "destroy"] /\ Tagged("dtor") = {}
      /\ UNCHANGED <<used, free_called, dtor_called, nulled, variables, prop, refcount, color, tag, calls>>
  BY DEF DestructorsCalled, Phase, gcFrame, objectVars, refVars
<1>2. gc'.phase = "destroy" /\ gc'.dtors = gc.dtors /\ gc'.work = gc.work /\ gc'.black = gc.black /\ GCTyped'
  BY <1>1 DEF IInv, GCTyped
<1>3. /\ HeapTyped' /\ Stacked' /\ Exact' /\ Scanned' /\ Rooted'
      /\ Isolated' /\ Waiting' /\ Freed' /\ Garbage' = Garbage /\ Tagged("dtor")' = Tagged("dtor")
  BY <1>1, <1>2, PhaseKeeps
<1>4. (Garbage \cap HasDtor) \subseteq dtor_called /\ gc.dtors /\ gc.work = {} /\ gc.black = {}
      /\ \A k \in Object : color[k] = IF tag[k] \in {"root", "dtor"} THEN "purple" ELSE "black"
  BY <1>1 DEF IInv, Phased
<1>5. Collects(calls) BY <1>1, CollectTop
<1>6. Phased' BY <1>1, <1>2, <1>3, <1>4, <1>5 DEF Phased
<1>7. Quiet' BY <1>2, <1>4 DEF Quiet
<1> QED BY <1>2, <1>3, <1>6, <1>7 DEF IInv

\* Garbage that a destructor may see is garbage no more; what is left is
\* referred to by what is left.
LEMMA MarkDtorGarbageKeeps ==
  ASSUME IInv, MarkDtorGarbage
  PROVE  IInv'
<1>1. Top("collect") /\ gc.phase = "collect" /\ gc.dtors BY DEF MarkDtorGarbage, Phase
<1>2. PICK D : D = Garbage \cap (HasDtor \ dtor_called) OBVIOUS
<1>3. PICK C : C = Closure(D, Garbage) OBVIOUS
<1>4. /\ tag' = [n \in Object |-> IF n \in D THEN "dtor" ELSE IF n \in C \ D THEN "none" ELSE tag[n]]
      /\ color' = [n \in Object |-> IF n \in D THEN "purple" ELSE color[n]]
      /\ dtor_called' = dtor_called \cup (Garbage \ D)
      /\ gc' = [gc EXCEPT !.phase = "dtors", !.rerun = TRUE]
      /\ UNCHANGED <<used, free_called, nulled, variables, prop, refcount, calls>>
  BY <1>2, <1>3 DEF MarkDtorGarbage, gc_remove_nested_data_from_buffer, Paint, Garbage, refVars
<1>5. HeapTyped /\ Isolated BY DEF IInv
<1>6. D \subseteq C /\ C \subseteq Garbage /\ D \subseteq Garbage
      /\ \A n \in C : \A m \in Visited(n) : m \in Garbage => m \in C
  <2>1. D \subseteq Closure(D, Garbage) /\ \A n \in Closure(D, Garbage) : (Garbage \cap Visited(n)) \subseteq Closure(D, Garbage)
    BY <1>5, ClosureFacts
  <2>2. D \subseteq Garbage /\ \A n \in Garbage : (Garbage \cap Visited(n)) \subseteq Garbage BY <1>2
  <2>3. Closure(D, Garbage) \subseteq Garbage BY <2>2, ClosureWithin
  <2> QED BY <2>1, <2>2, <2>3, <1>3
<1>7. \A n \in Garbage : n \in Object /\ tag[n] = "garbage" /\ n \in used BY <1>5, InGarbage DEF HeapTyped
<1>8. /\ \A n \in Object : n \in D => tag'[n] = "dtor" /\ color'[n] = "purple"
      /\ \A n \in Object : n \in C /\ n \notin D => tag'[n] = "none" /\ color'[n] = color[n]
      /\ \A n \in Object : n \notin C => tag'[n] = tag[n] /\ color'[n] = color[n]
  BY <1>4, <1>6
<1>9. /\ Tagged("dtor") = {} /\ nulled = {} /\ gc.work = {} /\ gc.black = {} /\ Collects(calls)
      /\ \A n \in Object : color[n] = IF tag[n] \in {"root", "dtor"} THEN "purple" ELSE "black"
  <2>1. Collects(calls) BY <1>1, CollectTop
  <2> QED BY <2>1, <1>1 DEF IInv, Phased
<1>10. /\ \A k : k \in Garbage' <=> k \in Garbage /\ k \notin C
       /\ \A k : k \in Tagged("dtor")' => k \in D
  <2>1. ASSUME NEW k PROVE k \in Garbage' <=> k \in Garbage /\ k \notin C
    <3>1. k \in Garbage' <=> k \in Object /\ tag'[k] = "garbage" BY InGarbageNext
    <3> QED BY <3>1, <1>6, <1>7, <1>8, InGarbage
  <2>2. ASSUME NEW k \in Tagged("dtor")' PROVE k \in D
    <3>1. k \in Object /\ tag'[k] = "dtor" BY DEF Tagged
    <3>2. tag[k] # "dtor" BY <3>1, <1>9 DEF Tagged
    <3> QED BY <3>1, <3>2, <1>8
  <2> QED BY <2>1, <2>2
<1>11. \A n \in Object : tag[n] = "garbage" => \A c \in CallSet(calls) : c.obj # n BY <1>1, CollectTop
<1>12. \A n \in Garbage : n \notin free_called
  <2> SUFFICES ASSUME NEW n \in Garbage, n \in free_called PROVE FALSE OBVIOUS
  <2>1. Call("free", n) \in CallSet(calls) BY <1>9 DEF IInv, Freed
  <2>2. Call("free", n).obj = n BY DEF Call
  <2> QED BY <2>1, <2>2, <1>7, <1>11
<1>13. HeapTyped'
  <2>1. tag' \in [Object -> {"none", "root", "garbage", "dtor"}] /\ color' \in [Object -> {"black", "white", "grey", "purple"}]
    BY <1>4, <1>5 DEF HeapTyped
  <2>2. dtor_called' \subseteq used' BY <1>4, <1>5, <1>7 DEF HeapTyped
  <2>3. \A k \in Object \ used' : variables'[k] = 0 /\ refcount'[k] = 0 /\ tag'[k] = "none"
    <3> SUFFICES ASSUME NEW k \in Object \ used PROVE variables[k] = 0 /\ refcount[k] = 0 /\ tag'[k] = "none" BY <1>4
    <3>1. k \notin C BY <1>6, <1>7
    <3> QED BY <3>1, <1>5, <1>8 DEF HeapTyped
  <2> QED BY <2>1, <2>2, <2>3, <1>4, <1>5 DEF HeapTyped
<1>14. gc'.phase = "dtors" /\ gc'.dtors /\ gc'.work = {} /\ gc'.black = {} /\ GCTyped'
  BY <1>1, <1>4, <1>9 DEF IInv, GCTyped
<1>15. Stacked'
  <2>1. ASSUME NEW c \in CallSet(calls) PROVE CallFits(c)'
    <3>1. CallFits(c) /\ c.op # "gcdtor" BY <1>1, CollectTop DEF IInv, Stacked
    <3> QED BY <3>1, <1>4 DEF CallFits
  <2>2. ~Top("undtor")' BY <1>1, <1>4 DEF Top
  <2> QED BY <2>1, <2>2, <1>4 DEF IInv, Stacked
<1>16. Exact'
  <2> SUFFICES ASSUME NEW k \in used PROVE refcount'[k] = Total(k)' BY <1>4, <1>14 DEF Exact
  <2>1. Total(k)' = Total(k) BY <1>4 DEF Total, In
  <2> QED BY <2>1, <1>1, <1>4 DEF IInv, Exact
<1>17. Phased'
  <2>1. (Garbage' \cap HasDtor) \subseteq dtor_called' BY <1>2, <1>4, <1>6, <1>10
  <2>2. \A n \in Object : color'[n] = IF tag'[n] \in {"root", "dtor"} THEN "purple" ELSE "black"
    <3> SUFFICES ASSUME NEW n \in Object PROVE color'[n] = IF tag'[n] \in {"root", "dtor"} THEN "purple" ELSE "black" OBVIOUS
    <3>1. CASE n \in D BY <3>1, <1>8
    <3>2. CASE n \in C /\ n \notin D BY <3>2, <1>6, <1>7, <1>8, <1>9
    <3>3. CASE n \notin C BY <3>3, <1>8, <1>9
    <3> QED BY <3>1, <3>2, <3>3
  <2> QED BY <2>1, <2>2, <1>4, <1>9, <1>14 DEF Phased
<1>18. Isolated'
  <2> SUFFICES ASSUME NEW g \in Garbage'
               PROVE  /\ variables'[g] = 0 /\ \A m \in used' : <<m, g>> \in prop' => m \in Garbage'
                      /\ \A d \in CallSet(calls') :
                           d.obj = g => d.op \in {"del", "free", "gcfree"} /\ d \notin Below(calls')
    BY DEF Isolated
  <2>1. g \in Garbage /\ g \notin C BY <1>10
  <2>2. ASSUME NEW m \in used, <<m, g>> \in prop PROVE m \in Garbage'
    <3>1. m \in Garbage BY <2>1, <2>2 DEF IInv, Isolated
    <3>2. g \in Visited(m) BY <2>2, <3>1, <1>5, <1>12, InVisited
    <3>3. m \notin C BY <3>2, <2>1, <1>6
    <3> QED BY <3>1, <3>3, <1>10
  <2>3. variables[g] = 0 /\ \A d \in CallSet(calls) : d.obj = g => d.op \in {"del", "free", "gcfree"} /\ d \notin Below(calls)
    BY <2>1 DEF IInv, Isolated
  <2> QED BY <2>2, <2>3, <1>4
<1>19. Waiting'
  <2> SUFFICES ASSUME NEW k \in Tagged("dtor")', NEW d \in Below(calls') PROVE d.obj # k BY DEF Waiting
  <2>1. k \in Garbage BY <1>6, <1>10
  <2>2. d \in CallSet(calls) BY <1>1, <1>4, CollectTop
  <2> QED BY <2>1, <2>2, <1>7, <1>11
<1>20. Freed'
  <2>1. \A k : Succ(k)' = Succ(k) BY <1>4 DEF Succ
  <2> QED BY <2>1, <1>4, <1>9 DEF IInv, Freed
<1>21. Scanned' BY <1>14 DEF Scanned
<1>22. Rooted'
  <2>1. \A n : Visited(n)' = Visited(n) BY <1>4 DEF Visited, Succ
  <2>2. PICK X : X = Reach(Sources)' OBVIOUS
  <2>3. Sources' \subseteq X /\ \A n \in X : \A m \in Visited(n) : m \in X
    <3>1. \A S : (S \subseteq Reach(S) /\ \A n \in Reach(S) : \A m \in Visited(n) : m \in Reach(S))' BY <1>13, ReachFactsNext
    <3>2. Sources' \subseteq Reach(Sources)' /\ \A n \in Reach(Sources)' : \A m \in Visited(n)' : m \in Reach(Sources)' BY <3>1
    <3> QED BY <3>2, <2>1, <2>2
  <2>4. ASSUME NEW n \in D PROVE n \in X
    <3>1. n \in Object /\ tag'[n] # "none" BY <1>6, <1>7, <1>8
    <3>2. n \in Sources' BY <3>1, <1>13, InSourcesNext
    <3> QED BY <3>2, <2>3
  <2>5. C \subseteq X
    <3>1. \A n \in X : (Garbage \cap Visited(n)) \subseteq X BY <2>3
    <3> QED BY <3>1, <2>4, <1>3, ClosureWithin
  <2>6. Sources \subseteq X
    <3> SUFFICES ASSUME NEW n \in Sources PROVE n \in X OBVIOUS
    <3>1. CASE n \in C BY <3>1, <2>5
    <3>2. CASE n \notin C
      <4>1. \/ n \in Object /\ variables[n] > 0
            \/ \E c \in CallSet(calls) : c.obj = n
            \/ \E m \in free_called : <<m, n>> \in prop
            \/ n \in Object /\ tag[n] # "none"
        BY <1>5, InSources
      <4>2. \/ n \in Object /\ variables'[n] > 0
            \/ \E c \in CallSet(calls') : c.obj = n
            \/ \E m \in free_called' : <<m, n>> \in prop'
            \/ n \in Object /\ tag'[n] # "none"
        BY <4>1, <3>2, <1>4, <1>8
      <4>3. n \in Sources' BY <4>2, <1>13, InSourcesNext
      <4> QED BY <4>3, <2>3
    <3> QED BY <3>1, <3>2
  <2>7. Reach(Sources) \subseteq X BY <2>3, <2>6, ReachWithin
  <2>8. used' \subseteq Reach(Sources)' BY <2>2, <2>7, <1>4 DEF IInv, Rooted
  <2> QED BY <2>8, <1>14 DEF Rooted
<1>23. Quiet' BY <1>14 DEF Quiet
<1> QED BY <1>13, <1>14, <1>15, <1>16, <1>17, <1>18, <1>19, <1>20, <1>21, <1>22, <1>23 DEF IInv

\* The garbage goes when all of it is destroyed; nothing refers to it any more.
LEMMA CollectedKeeps ==
  ASSUME IInv, Top("collect"), gc.phase \in {"collect", "destroy"}, Garbage \subseteq nulled,
         Efree(Garbage), UNCHANGED refVars,
         \/ UNCHANGED calls /\ gc' = [Idle EXCEPT !.phase = "mark", !.did_rerun = TRUE]
         \/ calls' = Tail(calls) /\ gc' = Idle
  PROVE  IInv'
<1> DEFINE c == calls[1]
           s == Tail(calls)
<1>1. PICK G : G = Garbage OBVIOUS
<1>2. /\ calls # <<>> /\ c.op = "collect" /\ c.obj = "none" /\ Collects(calls)
      /\ Below(calls) = CallSet(calls) /\ (\A d \in CallSet(calls) : d.op \notin {"del", "gcdtor"})
      /\ \A n \in Object : tag[n] = "garbage" => \A d \in CallSet(calls) : d.obj # n
  BY CollectTop
<1>3. PushFacts(calls, c, s) /\ s \in Seq(CallRec) BY <1>2, PopFact DEF IInv, Stacked
<1>4. /\ used' = used \ G /\ dtor_called' = dtor_called \ G /\ free_called' = free_called \ G /\ nulled' = nulled \ G
      /\ refcount' = [k \in Object |-> IF k \in G THEN 0 ELSE refcount[k]]
      /\ tag' = [k \in Object |-> IF k \in G THEN "none" ELSE tag[k]]
      /\ color' = [k \in Object |-> IF k \in G THEN "black" ELSE color[k]]
      /\ UNCHANGED <<variables, prop>>
  BY <1>1 DEF Efree, refVars
<1>5. /\ \/ calls' = calls /\ gc' = [Idle EXCEPT !.phase = "mark", !.did_rerun = TRUE]
         \/ calls' = s /\ gc' = Idle
      /\ (Top("collect") /\ calls' = calls => Top("collect")')
  BY DEF Top
<1> HIDE DEF c, s
<1>6. Shape(s) /\ MayPush(c, s) /\ CallSet(calls) = CallSet(s) \cup {c}
  BY <1>3 DEF PushFacts, IInv, Stacked
<1>7. ~Collects(s) BY <1>2, <1>6 DEF MayPush
<1>8. /\ Tagged("dtor") = {} /\ nulled \subseteq G /\ gc.phase # "scan"
      /\ \A k \in Object : color[k] = IF tag[k] \in {"root", "dtor"} THEN "purple" ELSE "black"
  <2>1. nulled \subseteq Garbage BY InGarbage DEF IInv, Freed, HeapTyped
  <2> QED BY <2>1, <1>1 DEF IInv, Phased
<1>9. \A n \in G : n \in Object /\ tag[n] = "garbage" /\ n \in used /\ n \in nulled
  BY <1>1, InGarbage DEF IInv, HeapTyped
<1>10. \A n \in G : \A d \in CallSet(calls) : d.obj # n BY <1>2, <1>9
<1>11. \A n \in G : \A m : <<n, m>> \notin prop /\ <<m, n>> \notin prop
  <2>1. ASSUME NEW n \in G PROVE \A m : <<n, m>> \notin prop
    <3>1. Succ(n) = {} \/ Call("gcfree", n) \in CallSet(calls) BY <1>9 DEF IInv, Freed
    <3>2. Call("gcfree", n).obj = n BY DEF Call
    <3>3. Succ(n) = {} BY <3>1, <3>2, <1>10
    <3> QED BY <3>3, InSucc DEF IInv
  <2>2. ASSUME NEW n \in G, NEW m, <<m, n>> \in prop PROVE FALSE
    <3>1. m \in used BY <2>2, PropTyped DEF IInv
    <3>2. m \in G BY <3>1, <2>2, <1>1 DEF IInv, Isolated
    <3> QED BY <3>2, <2>1, <2>2
  <2> QED BY <2>1, <2>2
<1>12. /\ \A k \in Object : k \notin G => refcount'[k] = refcount[k] /\ tag'[k] = tag[k] /\ color'[k] = color[k]
       /\ \A k \in G : refcount'[k] = 0 /\ tag'[k] = "none" /\ color'[k] = "black" /\ variables[k] = 0
  <2>1. \A k \in G : variables[k] = 0 BY <1>1 DEF IInv, Isolated
  <2> QED BY <2>1, <1>4, <1>9
<1>13. HeapTyped'
  <2>1. \A x \in prop : x \in used' \X used'
    <3> SUFFICES ASSUME NEW x \in prop PROVE x \in used' \X used' OBVIOUS
    <3>1. x \in used \X used BY DEF IInv, HeapTyped
    <3>2. x = <<x[1], x[2]>> /\ x[1] \in used /\ x[2] \in used BY <3>1
    <3>3. x[1] \notin G /\ x[2] \notin G BY <3>2, <1>11
    <3>4. x[1] \in used' /\ x[2] \in used' BY <3>2, <3>3, <1>4
    <3> QED BY <3>2, <3>4
  <2>2. refcount' \in [Object -> Int] BY <1>4 DEF IInv, HeapTyped
  <2>3. color' \in [Object -> {"black", "white", "grey", "purple"}] /\ tag' \in [Object -> {"none", "root", "garbage", "dtor"}]
    BY <1>4 DEF IInv, HeapTyped
  <2>4. ASSUME NEW k \in Object \ used' PROVE variables'[k] = 0 /\ refcount'[k] = 0 /\ tag'[k] = "none"
    <3>1. CASE k \in G BY <3>1, <1>4, <1>12
    <3>2. CASE k \notin G
      <4>1. k \notin used BY <3>2, <1>4
      <4> QED BY <3>2, <4>1, <1>4, <1>12 DEF IInv, HeapTyped
    <3> QED BY <3>1, <3>2
  <2> QED BY <2>1, <2>2, <2>3, <2>4, <1>4 DEF IInv, HeapTyped
<1>14. gc'.phase \in {"mark", "idle"} /\ gc'.work = {} /\ gc'.black = {} /\ GCTyped'
       /\ (gc'.phase = "mark" <=> calls' = calls) /\ (gc'.phase = "idle" => calls' = s)
  <2>1. calls # s BY <1>2, <1>7
  <2>2. CASE calls' = calls /\ gc' = [Idle EXCEPT !.phase = "mark", !.did_rerun = TRUE]
    BY <2>2 DEF GCTyped, Idle
  <2>3. CASE calls' = s /\ gc' = Idle BY <2>1, <2>3 DEF GCTyped, Idle
  <2> QED BY <2>2, <2>3, <1>5
<1>15. /\ calls' \in Seq(CallRec) /\ Shape(calls') /\ CallSet(calls') \subseteq CallSet(calls)
       /\ \A d \in CallSet(calls) : d.op # "collect" => d \in CallSet(calls')
       /\ (Collects(calls') <=> gc'.phase # "idle") /\ ~Top("undtor")'
       /\ (gc'.phase = "mark" => Top("collect")')
  <2>1. CASE calls' = calls /\ gc'.phase = "mark"
    <3>1. Top("collect")' BY <2>1, <1>5
    <3>2. ~Top("undtor")' BY <3>1 DEF Top
    <3> QED BY <3>1, <3>2, <2>1, <1>2 DEF IInv, Stacked
  <2>2. CASE calls' = s /\ gc'.phase = "idle"
    <3>1. ~Top("undtor")' BY <2>2, <1>2, <1>6 DEF MayPush, Top
    <3> QED BY <3>1, <2>2, <1>2, <1>3, <1>6, <1>7
  <2> QED BY <2>1, <2>2, <1>5, <1>14
<1>16. ASSUME NEW k \in used PROVE HoldsIn(calls', k) = HoldsIn(calls, k)
  <2>1. k # "none" BY GCAssumption DEF IInv, HeapTyped
  <2>2. HoldsIn(s, k) \in Nat /\ HoldsIn(calls, k) = HoldsIn(s, k) + (IF c.obj = k /\ c.op # "del" THEN 1 ELSE 0)
    BY <1>3 DEF PushFacts
  <2>3. HoldsIn(calls, k) = HoldsIn(s, k) BY <2>1, <2>2, <1>2
  <2> QED BY <2>3, <1>5
<1>17. Stacked'
  <2>1. ASSUME NEW d \in CallSet(calls') PROVE CallFits(d)'
    <3>1. CallFits(d) /\ d.obj \notin G /\ d.op \notin {"del", "gcdtor"} BY <1>2, <1>10, <1>15 DEF IInv, Stacked
    <3> QED BY <3>1, <1>4 DEF CallFits
  <2> QED BY <2>1, <1>15 DEF Stacked
<1>18. Exact'
  <2> SUFFICES ASSUME NEW k \in used' PROVE refcount'[k] = Total(k)' BY <1>14 DEF Exact
  <2>1. In(k)' = In(k) BY <1>4 DEF In
  <2>2. k \in used /\ k \notin G /\ k \in Object BY <1>4 DEF IInv, HeapTyped
  <2>3. refcount[k] = variables[k] + Cardinality(In(k)) + HoldsIn(calls, k) BY <2>2, <1>8, Counts
  <2> QED BY <2>1, <2>2, <2>3, <1>4, <1>12, <1>16 DEF Total
<1>19. Garbage' = {} /\ Tagged("dtor")' = {} /\ nulled' = {}
  <2>1. \A k \in Object : tag'[k] # "garbage" /\ tag'[k] # "dtor"
    <3> SUFFICES ASSUME NEW k \in Object PROVE tag'[k] # "garbage" /\ tag'[k] # "dtor" OBVIOUS
    <3>1. tag[k] # "dtor" /\ (tag[k] = "garbage" => k \in G) BY <1>1, <1>8, InGarbage DEF Tagged
    <3> QED BY <3>1, <1>12
  <2> QED BY <2>1, <1>4, <1>8 DEF Garbage, Tagged
<1>20. Phased'
  <2>1. \A k \in Object : color'[k] = IF tag'[k] \in {"root", "dtor"} THEN "purple" ELSE "black" BY <1>8, <1>12
  <2> QED BY <2>1, <1>14, <1>15, <1>19 DEF Phased
<1>21. Isolated' /\ Waiting' BY <1>19 DEF Isolated, Waiting
<1>22. Freed'
  <2>1. ASSUME NEW k \in free_called' PROVE Call("free", k) \in CallSet(calls')
    <3>1. k \in free_called /\ k \notin nulled BY <1>4, <1>8
    <3>2. Call("free", k) \in CallSet(calls) /\ Call("free", k).op = "free" BY <3>1 DEF IInv, Freed, Call
    <3> QED BY <3>2, <1>15
  <2> QED BY <2>1, <1>19 DEF Freed
<1>23. Scanned' BY <1>14 DEF Scanned
<1>24. Rooted'
  <2>1. HeapTyped /\ used \subseteq Reach(Sources) BY DEF IInv, Rooted
  <2>2. ASSUME NEW k \in used, k \in Sources, k \in used' PROVE k \in Sources'
    <3>1. k \notin G /\ k \in Object /\ k # "none" BY <2>2, <1>4, GCAssumption DEF IInv, HeapTyped
    <3>2. CASE k \in Object /\ variables[k] > 0 BY <3>2, <1>4, <1>13, InSourcesNext
    <3>3. CASE \E d \in CallSet(calls) : d.obj = k
      <4>1. PICK d \in CallSet(calls) : d.obj = k BY <3>3
      <4>2. d.op # "collect" BY <3>1, <4>1 DEF IInv, Stacked, CallFits
      <4>3. \E e \in CallSet(calls') : e.obj = k BY <4>1, <4>2, <1>15
      <4> QED BY <4>3, <1>13, InSourcesNext
    <3>4. CASE \E m \in free_called : <<m, k>> \in prop
      <4>1. \E m \in free_called' : <<m, k>> \in prop' BY <3>4, <1>4, <1>11
      <4> QED BY <4>1, <1>13, InSourcesNext
    <3>5. CASE k \in Object /\ tag[k] # "none"
      <4>1. tag'[k] # "none" BY <3>1, <3>5, <1>12
      <4> QED BY <3>1, <4>1, <1>13, InSourcesNext
    <3> QED BY <2>1, <2>2, <3>2, <3>3, <3>4, <3>5, InSources
  <2>3. ASSUME NEW m \in used, NEW k \in used, k \in Visited(m) PROVE k \in Visited(m)'
    <3>1. m \notin free_called /\ <<m, k>> \in prop BY <2>1, <2>3, InVisited
    <3> QED BY <3>1, <1>4, <1>13, InVisitedNext
  <2>4. \A m \in used : m \notin used' => Visited(m) = {}
    <3> SUFFICES ASSUME NEW m \in used, m \notin used' PROVE Visited(m) = {} OBVIOUS
    <3>1. m \in free_called BY <1>4, <1>9 DEF IInv, HeapTyped
    <3> QED BY <3>1 DEF Visited
  <2>5. used' \subseteq used BY <1>4
  <2>6. used' \subseteq Reach(Sources)' BY <2>1, <2>2, <2>3, <2>4, <2>5, <1>13, RootedKept
  <2> QED BY <2>6, <1>14 DEF Rooted
<1>25. Quiet' BY <1>14 DEF Quiet
<1> QED BY <1>13, <1>14, <1>17, <1>18, <1>20, <1>21, <1>22, <1>23, <1>24, <1>25 DEF IInv

LEMMA CollectEndsKeeps ==
  ASSUME IInv, CollectEnds
  PROVE  IInv'
<1>1. Top("collect") /\ gc.phase = "destroy" /\ Garbage \subseteq nulled /\ Efree(Garbage) /\ UNCHANGED refVars
  BY DEF CollectEnds, Phase, Garbage
<1>2. \/ UNCHANGED calls /\ gc' = [Idle EXCEPT !.phase = "mark", !.did_rerun = TRUE]
      \/ calls' = Tail(calls) /\ gc' = Idle
  BY DEF CollectEnds, Finish
<1> QED BY <1>1, <1>2, CollectedKeeps

LEMMA NothingToFreeKeeps ==
  ASSUME IInv, NothingToFree
  PROVE  IInv'
<1>1. Top("collect") /\ gc.phase = "collect" /\ Garbage = {} /\ UNCHANGED refVars
      /\ calls' = Tail(calls) /\ gc' = Idle
      /\ UNCHANGED <<used, free_called, dtor_called, nulled, refcount, color, tag>>
  BY DEF NothingToFree, Finish, Phase, Garbage, objectVars
<1>2. Efree(Garbage) BY <1>1 DEF Efree, IInv, HeapTyped
<1> QED BY <1>1, <1>2, CollectedKeeps

-----------------------------------------------------------------------------
(* The passes of the collection.                                           *)

\* The objects that refer to n; those of them in S whose reference counts.
Preds(n) == {m \in used : <<m, n>> \in prop}

LEMMA PredsCount ==
  ASSUME HeapTyped, NEW n
  PROVE  IsFiniteSet(Preds(n)) /\ Cardinality(Preds(n)) = Cardinality(In(n))
<1>1. IsFiniteSet(In(n)) BY InFinite
<1> DEFINE f == [e \in In(n) |-> e[1]]
<1>2. \A m \in Preds(n) : <<m, n>> \in In(n) /\ <<m, n>>[1] = m
  BY DEF Preds, In
<1>3. \A e \in In(n) : e[1] \in Preds(n) /\ e = <<e[1], n>>
  <2> SUFFICES ASSUME NEW e \in In(n) PROVE e[1] \in Preds(n) /\ e = <<e[1], n>> OBVIOUS
  <2>1. e \in prop /\ e[2] = n BY DEF In
  <2>2. e = <<e[1], e[2]>> /\ e[1] \in used BY <2>1 DEF HeapTyped
  <2> QED BY <2>1, <2>2 DEF Preds
<1>4. f \in Bijection(In(n), Preds(n))
  <2>1. f \in [In(n) -> Preds(n)] BY <1>3
  <2>2. \A a, b \in In(n) : f[a] = f[b] => a = b
    <3> SUFFICES ASSUME NEW a \in In(n), NEW b \in In(n), a[1] = b[1] PROVE a = b OBVIOUS
    <3>1. a = <<a[1], n>> /\ b = <<b[1], n>> BY <1>3
    <3> QED BY <3>1
  <2>3. \A m \in Preds(n) : \E e \in In(n) : f[e] = m BY <1>2
  <2> QED BY <2>1, <2>2, <2>3 DEF Bijection, Injection, Surjection, IsInjective
<1>5. ExistsBijection(In(n), Preds(n)) BY <1>4 DEF ExistsBijection
<1> QED BY <1>1, <1>5, FS_Bijection

LEMMA FollowingCount ==
  ASSUME HeapTyped, NEW S, NEW n
  PROVE  /\ IsFiniteSet(Following(S, n)) /\ Cardinality(Following(S, n)) \in Nat
         /\ Cardinality(In(n)) \in Nat /\ Cardinality(Following(S, n)) <= Cardinality(In(n))
         /\ Cardinality(Following(S, n)) = Cardinality(In(n)) =>
              \A m : <<m, n>> \in prop => m \in S /\ m \notin free_called
         /\ (\A m : <<m, n>> \in prop => m \in S /\ m \notin free_called) =>
              Cardinality(Following(S, n)) = Cardinality(In(n))
         /\ n \notin used => Cardinality(Following(S, n)) = 0
<1>1. IsFiniteSet(Preds(n)) /\ Cardinality(Preds(n)) = Cardinality(In(n)) /\ Cardinality(In(n)) \in Nat
  BY PredsCount, InFinite
<1>2. \A m : m \in Following(S, n) <=> m \in S /\ m \notin free_called /\ <<m, n>> \in prop
  <2> SUFFICES ASSUME NEW m
               PROVE  m \in Following(S, n) <=> m \in S /\ m \notin free_called /\ <<m, n>> \in prop
    OBVIOUS
  <2>1. m \in Following(S, n) <=> m \in S /\ n \in Visited(m) BY DEF Following
  <2> QED BY <2>1, InVisited
<1>3. \A m : m \in Preds(n) <=> <<m, n>> \in prop
  <2>1. \A m : <<m, n>> \in prop => m \in used BY PropTyped
  <2> QED BY <2>1 DEF Preds
<1>4. Following(S, n) \in SUBSET Preds(n) BY <1>2, <1>3
<1>5. /\ IsFiniteSet(Following(S, n)) /\ Cardinality(Following(S, n)) <= Cardinality(Preds(n))
      /\ Cardinality(Following(S, n)) = Cardinality(Preds(n)) => Following(S, n) = Preds(n)
  BY <1>1, <1>4, FS_Subset
<1>6. Cardinality(Following(S, n)) \in Nat BY <1>5, FS_CardinalityType
<1>7. Cardinality(Following(S, n)) = Cardinality(In(n)) => \A m : <<m, n>> \in prop => m \in S /\ m \notin free_called
  BY <1>1, <1>2, <1>3, <1>5
<1>8. (\A m : <<m, n>> \in prop => m \in S /\ m \notin free_called) => Following(S, n) = Preds(n)
  BY <1>2, <1>3
<1>9. n \notin used => Cardinality(Following(S, n)) = 0
  <2> SUFFICES ASSUME n \notin used PROVE Cardinality(Following(S, n)) = 0 OBVIOUS
  <2>1. \A m : <<m, n>> \notin prop BY PropTyped
  <2>2. Following(S, n) = {} BY <2>1, <1>2
  <2> QED BY <2>2, FS_EmptySet
<1> QED BY <1>1, <1>5, <1>6, <1>7, <1>8, <1>9

\* Counters after references were taken out or put back.
LEMMA Counted ==
  ASSUME HeapTyped, NEW S, NEW d \in {-1, 1}, refcount' = Count(S, d)
  PROVE  /\ refcount' \in [Object -> Int]
         /\ \A n \in Object : refcount'[n] = refcount[n] + d * Cardinality(Following(S, n))
         /\ \A n \in Object \ used : refcount'[n] = 0
<1>1. refcount \in [Object -> Int] /\ \A n \in Object \ used : refcount[n] = 0 BY DEF HeapTyped
<1>2. \A n \in Object : refcount'[n] = refcount[n] + d * Cardinality(Following(S, n))
  BY DEF Count, Following
<1>3. \A n : Cardinality(Following(S, n)) \in Nat /\ (n \notin used => Cardinality(Following(S, n)) = 0)
  BY FollowingCount
<1>4. \A n \in Object : refcount'[n] \in Int
  <2> SUFFICES ASSUME NEW n \in Object PROVE refcount'[n] \in Int OBVIOUS
  <2>1. refcount[n] \in Int /\ Cardinality(Following(S, n)) \in Nat BY <1>1, <1>3
  <2>2. d * Cardinality(Following(S, n)) \in Int BY <2>1
  <2> QED BY <2>1, <2>2, <1>2
<1>5. refcount' = [n \in Object |-> refcount'[n]] BY DEF Count
<1>6. refcount' \in [Object -> Int] BY <1>4, <1>5
<1>7. ASSUME NEW n \in Object \ used PROVE refcount'[n] = 0
  <2>1. refcount[n] = 0 /\ Cardinality(Following(S, n)) = 0 BY <1>1, <1>3
  <2>2. d * 0 = 0 OBVIOUS
  <2> QED BY <2>1, <2>2, <1>2
<1> QED BY <1>2, <1>6, <1>7

LEMMA InTaken ==
  \A n : n \in Taken <=> (n \in Object /\ color[n] \in {"grey", "white"}) \/ n \in gc.black
BY DEF Taken, Colored

LEMMA InTakenNext ==
  (\A n : n \in Taken <=> (n \in Object /\ color[n] \in {"grey", "white"}) \/ n \in gc.black)'
BY InTaken, PTL

LEMMA ReachSame ==
  ASSUME UNCHANGED <<prop, free_called>>
  PROVE  \A S : \A n : n \in Reach(S)' <=> n \in Reach(S)
<1> SUFFICES ASSUME NEW S PROVE \A n : n \in Reach(S)' <=> n \in Reach(S) OBVIOUS
<1>1. Closure(S, Object) = ClosureIn(prop, free_called, S, Object) BY ClosureIsIn
<1>2. Closure(S, Object)' = ClosureIn(prop', free_called', S, Object) BY ClosureIsInNext
<1>3. Closure(S, Object)' = Closure(S, Object) BY <1>1, <1>2
<1> QED BY <1>3 DEF Reach

LEMMA TakenFollowing ==
  ASSUME UNCHANGED <<prop, free_called>>, NEW X, \A n : n \in Taken' <=> n \in X
  PROVE  \A k : Cardinality(Following(Taken, k))' = Cardinality(Following(X, k))
<1> SUFFICES ASSUME NEW k PROVE Cardinality(Following(Taken, k))' = Cardinality(Following(X, k)) OBVIOUS
<1>1. \A m : Visited(m)' = Visited(m) BY DEF Visited, Succ
<1>2. Following(Taken, k)' = Following(X, k) BY <1>1 DEF Following
<1> QED BY <1>2

\* What a pass leaves alone.
LEMMA PassKeeps ==
  ASSUME IInv, Top("collect"), gc.phase \in {"mark", "scan"}, gc'.phase = "scan",
         UNCHANGED <<used, free_called, dtor_called, nulled, variables, prop, calls, tag>>,
         refcount' \in [Object -> Int], \A n \in Object \ used : refcount'[n] = 0,
         color' \in [Object -> {"black", "white", "grey", "purple"}]
  PROVE  /\ HeapTyped' /\ Stacked' /\ Phased' /\ Isolated' /\ Waiting' /\ Freed' /\ Quiet'
         /\ used' \subseteq Reach(Sources)'
         /\ \A n : Visited(n)' = Visited(n)
         /\ \A n : n \in Reach(Roots)' <=> n \in Reach(Roots)
         /\ \A n : n \in Reach(Base)' <=> n \in Reach(Base)
         /\ \A n : Total(n)' = Total(n)
<1>1. HeapTyped' BY DEF IInv, HeapTyped
<1>2. /\ calls[1].op = "collect" /\ Collects(calls) /\ \A c \in CallSet(calls) : c.op # "del"
  BY CollectTop
<1>3. Garbage = {} /\ Tagged("dtor") = {} /\ nulled = {} BY DEF IInv, Phased
<1>4. Garbage' = {} /\ Tagged("dtor")' = {} BY <1>3 DEF Garbage, Tagged
<1>5. Stacked'
  <2>1. ASSUME NEW c \in CallSet(calls) PROVE CallFits(c)'
    <3>1. CallFits(c) /\ c.op # "del" BY <1>2 DEF IInv, Stacked
    <3> QED BY <3>1 DEF CallFits
  <2>2. ~Top("undtor")' BY <1>2 DEF Top
  <2> QED BY <2>1, <2>2 DEF IInv, Stacked
<1>6. Phased'
  <2>1. Top("collect")' BY DEF Top
  <2> QED BY <2>1, <1>2, <1>3, <1>4 DEF Phased
<1>7. Isolated' /\ Waiting' BY <1>4 DEF Isolated, Waiting
<1>8. Freed'
  <2>1. \A k : Succ(k)' = Succ(k) BY DEF Succ
  <2> QED BY <2>1, <1>3 DEF IInv, Freed
<1>9. used' \subseteq Reach(Sources)'
  <2>1. HeapTyped /\ Rooted BY DEF IInv
  <2> QED BY <2>1, <1>1, RootedSame
<1>10. \A n : Visited(n)' = Visited(n) BY DEF Visited, Succ
<1>11. \A n : n \in Reach(Roots)' <=> n \in Reach(Roots)
  <2>1. Roots' = Roots BY DEF Roots, Tagged
  <2>2. \A S : \A n : n \in Reach(S)' <=> n \in Reach(S) BY ReachSame
  <2> QED BY <2>1, <2>2
<1>12. \A n : n \in Reach(Base)' <=> n \in Reach(Base)
  <2>1. Base' = Base BY DEF Base, Variables, Held, Succ
  <2>2. \A S : \A n : n \in Reach(S)' <=> n \in Reach(S) BY ReachSame
  <2> QED BY <2>1, <2>2
<1>13. \A n : Total(n)' = Total(n) BY DEF Total, In
<1>14. Quiet' BY DEF Quiet
<1> QED BY <1>1, <1>5, <1>6, <1>7, <1>8, <1>9, <1>10, <1>11, <1>12, <1>13, <1>14

LEMMA BelowRoots ==
  HeapTyped => \A n \in Reach(Roots) : n \in used /\ n \in Object
<1> SUFFICES ASSUME HeapTyped PROVE \A n \in Reach(Roots) : n \in used /\ n \in Object OBVIOUS
<1>1. Roots \subseteq used BY DEF Roots, Tagged, HeapTyped
<1>2. \A n \in used : \A m \in Visited(n) : m \in used BY InVisited, PropTyped
<1>3. Reach(Roots) \subseteq used BY <1>1, <1>2, ReachWithin
<1> QED BY <1>3 DEF HeapTyped

LEMMA gc_mark_rootsKeeps ==
  ASSUME IInv, gc_mark_roots
  PROVE  IInv'
<1>1. Top("collect") /\ gc.phase = "mark" BY DEF gc_mark_roots, Phase
<1>2. PICK R : R = Reach(Roots) OBVIOUS
<1>3. /\ refcount' = Count(R, -1) /\ color' = Paint(R, "grey") /\ gc' = [gc EXCEPT !.phase = "scan"]
      /\ UNCHANGED <<used, free_called, dtor_called, nulled, variables, prop, calls, tag>>
  BY <1>2 DEF gc_mark_roots, gcFrame, objectVars, refVars
<1>4. HeapTyped /\ Garbage = {} /\ Tagged("dtor") = {} /\ gc.work = {} /\ gc.black = {}
      /\ \A n \in Object : color[n] = IF tag[n] \in {"root", "dtor"} THEN "purple" ELSE "black"
  BY <1>1 DEF IInv, Phased
<1>5. /\ refcount' \in [Object -> Int] /\ \A n \in Object \ used : refcount'[n] = 0
      /\ \A n \in Object : refcount'[n] = refcount[n] + (-1) * Cardinality(Following(R, n))
  BY <1>3, <1>4, Counted
<1>6. gc'.phase = "scan" /\ gc'.work = {} /\ gc'.black = {} /\ GCTyped'
  BY <1>3, <1>4 DEF IInv, GCTyped
<1>7. \A n \in R : n \in used /\ n \in Object BY <1>2, <1>4, BelowRoots
<1>8. color' \in [Object -> {"black", "white", "grey", "purple"}]
      /\ \A n \in Object : color'[n] = IF n \in R THEN "grey" ELSE color[n]
  BY <1>3, <1>4 DEF Paint, HeapTyped
<1>9. /\ HeapTyped' /\ Stacked' /\ Phased' /\ Isolated' /\ Waiting' /\ Freed' /\ Quiet'
      /\ used' \subseteq Reach(Sources)'
      /\ \A n : n \in Reach(Roots)' <=> n \in Reach(Roots)
      /\ \A n : n \in Reach(Base)' <=> n \in Reach(Base)
      /\ \A n : Total(n)' = Total(n)
  BY <1>1, <1>3, <1>5, <1>6, <1>8, PassKeeps
<1>10. Roots \subseteq R /\ \A n \in R : \A m \in Visited(n) : m \in R BY <1>2, <1>4, ReachFacts
<1>11. \A n \in Object : n \notin R => color'[n] = "black"
  <2> SUFFICES ASSUME NEW n \in Object, n \notin R PROVE color'[n] = "black" OBVIOUS
  <2>1. tag[n] # "root" /\ tag[n] # "dtor" BY <1>4, <1>10 DEF Roots, Tagged
  <2> QED BY <2>1, <1>4, <1>8
<1>12. \A n : n \in Taken' <=> n \in R
  <2> SUFFICES ASSUME NEW n PROVE n \in Taken' <=> n \in R OBVIOUS
  <2>1. n \in Taken' <=> (n \in Object /\ color'[n] \in {"grey", "white"}) \/ n \in gc'.black BY InTakenNext
  <2> QED BY <2>1, <1>6, <1>7, <1>8, <1>11
<1>13. Exact'
  <2> SUFFICES ASSUME NEW k \in used PROVE refcount'[k] = Total(k)' - Cardinality(Following(Taken, k))' BY <1>3, <1>6 DEF Exact
  <2>1. Cardinality(Following(Taken, k))' = Cardinality(Following(R, k)) BY <1>3, <1>12, TakenFollowing
  <2>2. k \in Object BY <1>4 DEF HeapTyped
  <2>3. refcount[k] = Total(k) BY <1>1 DEF IInv, Exact
  <2>4. refcount'[k] = refcount[k] + (-1) * Cardinality(Following(R, k)) BY <2>2, <1>5
  <2>5. Total(k) \in Nat /\ Cardinality(Following(R, k)) \in Nat BY <2>2, <1>4, Totals, FollowingCount DEF IInv
  <2>6. refcount'[k] = Total(k) - Cardinality(Following(R, k)) BY <2>3, <2>4, <2>5
  <2> QED BY <2>1, <2>6, <1>9
<1>14. Scanned'
  <2>1. \A n \in Object : color'[n] # "purple" /\ (color'[n] # "black" => n \in Reach(Roots)')
    BY <1>2, <1>8, <1>9, <1>11
  <2>2. \A n \in Object : color'[n] # "white" BY <1>8, <1>11
  <2>3. \A n \in Reach(Roots)' : color'[n] # "black" BY <1>2, <1>7, <1>8, <1>9
  <2> QED BY <2>1, <2>2, <2>3, <1>6 DEF Scanned
<1>15. Rooted'
  <2>1. \A n \in used' : color'[n] = "black" => n \in Reach(Base)'
    <3> SUFFICES ASSUME NEW n \in used, n \notin R PROVE n \in Reach(Base)
      BY <1>3, <1>7, <1>8, <1>9
    <3> DEFINE X == Reach(Base) \cup R
    <3>1. Base \subseteq Reach(Base) /\ \A k \in Reach(Base) : \A m \in Visited(k) : m \in Reach(Base) BY <1>4, ReachFacts
    <3>2. \A k \in X : \A m \in Visited(k) : m \in X BY <3>1, <1>10
    <3>3. Sources \subseteq X
      <4>1. \A k \in Object : tag[k] # "none" => tag[k] = "root"
        <5> SUFFICES ASSUME NEW k \in Object PROVE tag[k] \in {"none", "root"} OBVIOUS
        <5>1. tag[k] \in {"none", "root", "garbage", "dtor"} BY <1>4 DEF HeapTyped
        <5>2. tag[k] # "garbage" /\ tag[k] # "dtor" BY <1>4 DEF Garbage, Tagged
        <5> QED BY <5>1, <5>2
      <4>2. Sources \subseteq Base \cup Roots BY <4>1 DEF Sources, Roots, Tagged
      <4> QED BY <4>2, <3>1, <1>10
    <3>4. Reach(Sources) \subseteq X
      <4> HIDE DEF X
      <4> QED BY <3>2, <3>3, ReachWithin
    <3>5. n \in Reach(Sources) BY DEF IInv, Rooted
    <3> QED BY <3>4, <3>5
  <2> QED BY <2>1, <1>9 DEF Rooted
<1> QED BY <1>6, <1>9, <1>13, <1>14, <1>15 DEF IInv

\* What the invariant says while the collector scans.
LEMMA Scanning ==
  ASSUME IInv, Phase("scan")
  PROVE  /\ Top("collect") /\ gc.phase = "scan" /\ HeapTyped
         /\ gc \in [phase : {"idle", "mark", "scan", "collect", "dtors", "destroy"},
                    work : SUBSET used, black : SUBSET used, dtors : BOOLEAN, rerun : BOOLEAN,
                    did_rerun : BOOLEAN]
         /\ \A n \in Object : color[n] \in {"black", "white", "grey"} /\ (color[n] # "black" => n \in Reach(Roots))
         /\ gc.work \subseteq Reach(Roots)
         /\ \A n \in gc.black : n \in Reach(Roots) /\ color[n] = "black"
         /\ \A n \in Object : color[n] = "white" /\ n \notin gc.work =>
              refcount[n] = 0 /\ \A m \in Visited(n) : color[m] # "grey"
         /\ \A n \in Reach(Roots) : color[n] = "black" /\ n \notin gc.black => \A m \in Visited(n) : color[m] = "black"
         /\ \A n \in used : color[n] = "black" => n \in Reach(Base)
         /\ \A n \in used : refcount[n] = Total(n) - Cardinality(Following(Taken, n))
         /\ \A n \in Reach(Roots) : n \in used /\ n \in Object /\ \A m \in Visited(n) : m \in Reach(Roots)
         /\ color \in [Object -> {"black", "white", "grey", "purple"}] /\ refcount \in [Object -> Int]
         /\ \A n \in Object \ used : refcount[n] = 0
<1>1. Top("collect") /\ gc.phase = "scan" /\ HeapTyped BY DEF Phase, IInv
<1>2. color \in [Object -> {"black", "white", "grey", "purple"}] /\ refcount \in [Object -> Int]
      /\ \A n \in Object \ used : refcount[n] = 0
  BY <1>1 DEF HeapTyped
<1>3. \A n \in Reach(Roots) : n \in used /\ n \in Object /\ \A m \in Visited(n) : m \in Reach(Roots)
  BY <1>1, BelowRoots, ReachFacts
<1>4. \A n \in used : color[n] = "black" => n \in Reach(Base) BY <1>1 DEF IInv, Rooted
<1>5. \A n \in used : refcount[n] = Total(n) - Cardinality(Following(Taken, n)) BY <1>1 DEF IInv, Exact
<1>6. \A n \in Object : color[n] \in {"black", "white", "grey"} BY <1>1, <1>2 DEF IInv, Scanned
<1> QED BY <1>1, <1>2, <1>3, <1>4, <1>5, <1>6 DEF IInv, Scanned, GCTyped

\* A step of the scan that leaves the counters alone.
LEMMA ScanKeeps ==
  ASSUME IInv, Phase("scan"), gc'.phase = "scan", GCTyped',
         UNCHANGED <<used, free_called, dtor_called, nulled, variables, prop, calls, tag, refcount>>,
         color' \in [Object -> {"black", "white", "grey", "purple"}],
         \A n : n \in Taken' <=> n \in Taken,
         \A n \in used : color'[n] = "black" => n \in Reach(Base),
         /\ \A n \in Object : color'[n] # "purple" /\ (color'[n] # "black" => n \in Reach(Roots))
         /\ gc'.work \subseteq Reach(Roots)
         /\ \A n \in gc'.black : n \in Reach(Roots) /\ color'[n] = "black"
         /\ \A n \in Object : color'[n] = "white" /\ n \notin gc'.work =>
              refcount[n] = 0 /\ \A m \in Visited(n) : color'[m] # "grey"
         /\ \A n \in Reach(Roots) : color'[n] = "black" /\ n \notin gc'.black =>
              \A m \in Visited(n) : color'[m] = "black"
  PROVE  IInv'
<1>1. /\ Top("collect") /\ gc.phase = "scan" /\ refcount \in [Object -> Int] /\ \A n \in Object \ used : refcount[n] = 0
      /\ \A n \in used : refcount[n] = Total(n) - Cardinality(Following(Taken, n))
  BY Scanning
<1>2. /\ HeapTyped' /\ Stacked' /\ Phased' /\ Isolated' /\ Waiting' /\ Freed' /\ Quiet'
      /\ used' \subseteq Reach(Sources)'
      /\ \A n : Visited(n)' = Visited(n)
      /\ \A n : n \in Reach(Roots)' <=> n \in Reach(Roots)
      /\ \A n : n \in Reach(Base)' <=> n \in Reach(Base)
      /\ \A n : Total(n)' = Total(n)
  BY <1>1, PassKeeps
<1>3. Exact'
  <2>1. PICK T : T = Taken OBVIOUS
  <2>2. \A n : n \in Taken' <=> n \in T BY <2>1
  <2>3. \A k : Cardinality(Following(Taken, k))' = Cardinality(Following(T, k)) BY <2>2, TakenFollowing
  <2> QED BY <2>1, <2>3, <1>1, <1>2 DEF Exact
<1>4. Scanned' BY <1>2 DEF Scanned
<1>5. Rooted' BY <1>2 DEF Rooted
<1> QED BY <1>2, <1>3, <1>4, <1>5 DEF IInv

LEMMA gc_scan_rootsKeeps ==
  ASSUME IInv, gc_scan_roots
  PROVE  IInv'
<1>1. Phase("scan") /\ gc.work = {} /\ gc.black = {} BY DEF gc_scan_roots
<1>2. PICK n \in Colored(Roots, "grey") :
        /\ color' = Paint({n}, "white") /\ gc' = [gc EXCEPT !.work = {n}]
        /\ UNCHANGED <<used, free_called, dtor_called, nulled, variables, prop, calls, tag, refcount>>
  BY DEF gc_scan_roots, gcFrame, objectVars, refVars
<1>3. /\ Top("collect") /\ gc.phase = "scan" /\ HeapTyped
      /\ gc \in [phase : {"idle", "mark", "scan", "collect", "dtors", "destroy"},
                 work : SUBSET used, black : SUBSET used, dtors : BOOLEAN, rerun : BOOLEAN,
                 did_rerun : BOOLEAN]
      /\ \A k \in Object : color[k] \in {"black", "white", "grey"} /\ (color[k] # "black" => k \in Reach(Roots))
      /\ \A k \in Object : color[k] = "white" /\ k \notin gc.work =>
           refcount[k] = 0 /\ \A m \in Visited(k) : color[m] # "grey"
      /\ \A k \in Reach(Roots) : color[k] = "black" /\ k \notin gc.black => \A m \in Visited(k) : color[m] = "black"
      /\ \A k \in used : color[k] = "black" => k \in Reach(Base)
      /\ \A k \in Reach(Roots) : k \in used /\ k \in Object /\ \A m \in Visited(k) : m \in Reach(Roots)
      /\ color \in [Object -> {"black", "white", "grey", "purple"}]
      /\ \A k \in used : k \in Object
  BY <1>1, Scanning DEF HeapTyped
<1>4. n \in Object /\ color[n] = "grey" /\ n \in Reach(Roots) /\ n \in used
  <2>1. n \in Object /\ color[n] = "grey" BY <1>2 DEF Colored, Roots, Tagged
  <2> QED BY <2>1, <1>3
<1>5. color' \in [Object -> {"black", "white", "grey", "purple"}]
      /\ \A k \in Object : color'[k] = IF k = n THEN "white" ELSE color[k]
  BY <1>2, <1>3 DEF Paint
<1>6. gc'.phase = "scan" /\ gc'.work = {n} /\ gc'.black = {} /\ GCTyped' BY <1>1, <1>2, <1>3, <1>4 DEF GCTyped
<1>7. \A k : k \in Taken' <=> k \in Taken
  <2> SUFFICES ASSUME NEW k PROVE k \in Taken' <=> k \in Taken OBVIOUS
  <2>1. k \in Taken' <=> (k \in Object /\ color'[k] \in {"grey", "white"}) \/ k \in gc'.black BY InTakenNext
  <2>2. k \in Taken <=> (k \in Object /\ color[k] \in {"grey", "white"}) \/ k \in gc.black BY InTaken
  <2> QED BY <2>1, <2>2, <1>1, <1>4, <1>5, <1>6
<1>8. \A k \in used : color'[k] = "black" => k \in Reach(Base) BY <1>3, <1>5
<1>9. \A k \in Object : color'[k] # "purple" /\ (color'[k] # "black" => k \in Reach(Roots)) BY <1>3, <1>4, <1>5
<1>10. \A k \in Object : color'[k] = "white" /\ k \notin gc'.work =>
         refcount[k] = 0 /\ \A m \in Visited(k) : color'[m] # "grey"
  <2> SUFFICES ASSUME NEW k \in Object, color'[k] = "white", k # n
               PROVE  refcount[k] = 0 /\ \A m \in Visited(k) : color'[m] # "grey"
    BY <1>6
  <2>1. color[k] = "white" /\ k \in Reach(Roots) BY <1>3, <1>5
  <2>2. refcount[k] = 0 /\ \A m \in Visited(k) : color[m] # "grey" /\ m \in Object BY <2>1, <1>1, <1>3
  <2> QED BY <2>2, <1>5
<1>11. \A k \in Reach(Roots) : color'[k] = "black" /\ k \notin gc'.black => \A m \in Visited(k) : color'[m] = "black"
  <2> SUFFICES ASSUME NEW k \in Reach(Roots), color'[k] = "black", NEW m \in Visited(k) PROVE color'[m] = "black" OBVIOUS
  <2>1. k \in Object /\ m \in Object BY <1>3
  <2>2. color[k] = "black" BY <2>1, <1>5
  <2>3. color[m] = "black" BY <2>2, <1>1, <1>3
  <2> QED BY <2>1, <2>3, <1>4, <1>5
<1> QED BY <1>1, <1>2, <1>4, <1>5, <1>6, <1>7, <1>8, <1>9, <1>10, <1>11, ScanKeeps

\* An object whose counter is left with something is needed from elsewhere.
LEMMA LeftCount ==
  ASSUME IInv, Phase("scan"), gc.black = {}, NEW n \in used, color[n] = "white", refcount[n] > 0
  PROVE  n \in Reach(Base)
<1>1. /\ HeapTyped /\ \A k \in Object : color[k] \in {"black", "white", "grey"}
      /\ \A k \in used : color[k] = "black" => k \in Reach(Base)
      /\ refcount[n] = Total(n) - Cardinality(Following(Taken, n))
      /\ \A k \in used : k \in Object
  BY Scanning DEF HeapTyped
<1>2. Base \subseteq Reach(Base) /\ \A k \in Reach(Base) : \A m \in Visited(k) : m \in Reach(Base) BY <1>1, ReachFacts
<1> SUFFICES ASSUME n \notin Reach(Base) PROVE FALSE OBVIOUS
<1>3. n \notin Base BY <1>2
<1>4. n \in Object /\ variables[n] \in Nat /\ Total(n) = variables[n] + Cardinality(In(n)) + HoldsIn(calls, n)
      /\ Cardinality(In(n)) \in Nat
  BY <1>1, Totals DEF IInv, Total
<1>5. variables[n] = 0 BY <1>3, <1>4, <1>1, InBase
<1>6. HoldsIn(calls, n) = 0
  <2>1. \A c \in CallSet(calls) : c.obj # n BY <1>1, <1>3, InBase
  <2>2. calls \in Seq(CallRec) BY DEF IInv, Stacked
  <2> QED BY <2>1, <2>2, HeldOnce
<1>7. \A m : <<m, n>> \in prop => m \in Taken /\ m \notin free_called
  <2> SUFFICES ASSUME NEW m, <<m, n>> \in prop PROVE m \in Taken /\ m \notin free_called OBVIOUS
  <2>1. m \in used BY <1>1, PropTyped
  <2>2. m \notin free_called BY <1>1, <1>3, InBase
  <2>3. n \in Visited(m) BY <1>1, <2>2, InVisited
  <2>4. m \notin Reach(Base) BY <2>3, <1>2
  <2>5. color[m] # "black" BY <2>1, <2>4, <1>1
  <2>6. m \in Object /\ color[m] \in {"grey", "white"} BY <2>1, <2>5, <1>1
  <2> QED BY <2>2, <2>6, InTaken
<1>8. Cardinality(Following(Taken, n)) = Cardinality(In(n)) BY <1>1, <1>7, FollowingCount
<1> QED BY <1>1, <1>4, <1>5, <1>6, <1>8

LEMMA gc_scanKeeps ==
  ASSUME IInv, gc_scan
  PROVE  IInv'
<1>1. Phase("scan") /\ gc.black = {} BY DEF gc_scan
<1>2. PICK n \in gc.work :
       \/ /\ color[n] # "white"
          /\ gc' = [gc EXCEPT !.work = @ \ {n}] /\ UNCHANGED color
       \/ /\ color[n] = "white" /\ refcount[n] > 0
          /\ color' = Paint({n}, "black")
          /\ gc' = [gc EXCEPT !.work = @ \ {n}, !.black = {n}]
       \/ /\ color[n] = "white" /\ refcount[n] = 0
          /\ color' = Paint(Colored(Visited(n), "grey"), "white")
          /\ gc' = [gc EXCEPT !.work = (@ \ {n}) \cup Colored(Visited(n), "grey")]
  BY DEF gc_scan
<1>3. UNCHANGED <<used, free_called, dtor_called, nulled, variables, prop, calls, tag, refcount>>
  BY DEF gc_scan, gcFrame, objectVars, refVars
<1>4. /\ Top("collect") /\ gc.phase = "scan" /\ HeapTyped
      /\ gc \in [phase : {"idle", "mark", "scan", "collect", "dtors", "destroy"},
                 work : SUBSET used, black : SUBSET used, dtors : BOOLEAN, rerun : BOOLEAN,
                 did_rerun : BOOLEAN]
      /\ \A k \in Object : color[k] \in {"black", "white", "grey"} /\ (color[k] # "black" => k \in Reach(Roots))
      /\ gc.work \subseteq Reach(Roots)
      /\ \A k \in Object : color[k] = "white" /\ k \notin gc.work =>
           refcount[k] = 0 /\ \A m \in Visited(k) : color[m] # "grey"
      /\ \A k \in Reach(Roots) : color[k] = "black" /\ k \notin gc.black => \A m \in Visited(k) : color[m] = "black"
      /\ \A k \in used : color[k] = "black" => k \in Reach(Base)
      /\ \A k \in Reach(Roots) : k \in used /\ k \in Object /\ \A m \in Visited(k) : m \in Reach(Roots)
      /\ color \in [Object -> {"black", "white", "grey", "purple"}]
      /\ \A k \in used : k \in Object
  BY <1>1, Scanning DEF HeapTyped
<1>5. n \in Reach(Roots) /\ n \in used /\ n \in Object BY <1>2, <1>4
<1>6. CASE color[n] # "white" /\ gc' = [gc EXCEPT !.work = @ \ {n}] /\ UNCHANGED color
  <2>1. gc'.phase = "scan" /\ gc'.work = gc.work \ {n} /\ gc'.black = {} /\ GCTyped' BY <1>1, <1>3, <1>4, <1>6 DEF GCTyped
  <2>2. \A k : k \in Taken' <=> k \in Taken
    <3> SUFFICES ASSUME NEW k PROVE k \in Taken' <=> k \in Taken OBVIOUS
    <3>1. k \in Taken' <=> (k \in Object /\ color'[k] \in {"grey", "white"}) \/ k \in gc'.black BY InTakenNext
    <3>2. k \in Taken <=> (k \in Object /\ color[k] \in {"grey", "white"}) \/ k \in gc.black BY InTaken
    <3> QED BY <3>1, <3>2, <1>1, <1>6, <2>1
  <2>3. \A k \in Object : color'[k] = "white" /\ k \notin gc'.work =>
          refcount[k] = 0 /\ \A m \in Visited(k) : color'[m] # "grey"
    BY <1>4, <1>6, <2>1
  <2>4. \A k \in Object : color'[k] # "purple" /\ (color'[k] # "black" => k \in Reach(Roots)) BY <1>4, <1>6
  <2>5. \A k \in Reach(Roots) : color'[k] = "black" /\ k \notin gc'.black => \A m \in Visited(k) : color'[m] = "black"
    BY <1>1, <1>4, <1>6
  <2>6. gc'.work \subseteq Reach(Roots) /\ color' \in [Object -> {"black", "white", "grey", "purple"}]
        /\ \A k \in used : color'[k] = "black" => k \in Reach(Base)
    BY <1>4, <1>6, <2>1
  <2> QED BY <1>1, <1>3, <2>1, <2>2, <2>3, <2>4, <2>5, <2>6, ScanKeeps
<1>7. CASE color[n] = "white" /\ refcount[n] > 0 /\ color' = Paint({n}, "black")
           /\ gc' = [gc EXCEPT !.work = @ \ {n}, !.black = {n}]
  <2>1. gc'.phase = "scan" /\ gc'.work = gc.work \ {n} /\ gc'.black = {n} /\ GCTyped'
    BY <1>3, <1>4, <1>5, <1>7 DEF GCTyped
  <2>2. color' \in [Object -> {"black", "white", "grey", "purple"}]
        /\ \A k \in Object : color'[k] = IF k = n THEN "black" ELSE color[k]
    BY <1>4, <1>7 DEF Paint
  <2>3. \A k : k \in Taken' <=> k \in Taken
    <3> SUFFICES ASSUME NEW k PROVE k \in Taken' <=> k \in Taken OBVIOUS
    <3>1. k \in Taken' <=> (k \in Object /\ color'[k] \in {"grey", "white"}) \/ k \in gc'.black BY InTakenNext
    <3>2. k \in Taken <=> (k \in Object /\ color[k] \in {"grey", "white"}) \/ k \in gc.black BY InTaken
    <3> QED BY <3>1, <3>2, <1>1, <1>5, <1>7, <2>1, <2>2
  <2>4. \A k \in Object : color'[k] = "white" /\ k \notin gc'.work =>
          refcount[k] = 0 /\ \A m \in Visited(k) : color'[m] # "grey"
    <3> SUFFICES ASSUME NEW k \in Object, color'[k] = "white", k \notin gc'.work
                 PROVE  refcount[k] = 0 /\ \A m \in Visited(k) : color'[m] # "grey"
      OBVIOUS
    <3>1. k # n /\ color[k] = "white" /\ k \notin gc.work /\ k \in Reach(Roots) BY <1>4, <2>1, <2>2
    <3>2. refcount[k] = 0 /\ \A m \in Visited(k) : color[m] # "grey" /\ m \in Object BY <3>1, <1>4
    <3> QED BY <3>2, <2>2
  <2>5. \A k \in Object : color'[k] # "purple" /\ (color'[k] # "black" => k \in Reach(Roots)) BY <1>4, <2>2
  <2>6. \A k \in Reach(Roots) : color'[k] = "black" /\ k \notin gc'.black => \A m \in Visited(k) : color'[m] = "black"
    <3> SUFFICES ASSUME NEW k \in Reach(Roots), color'[k] = "black", k # n, NEW m \in Visited(k) PROVE color'[m] = "black"
      BY <2>1
    <3>1. k \in Object /\ m \in Object BY <1>4
    <3>2. color[m] = "black" BY <3>1, <1>1, <1>4, <2>2
    <3> QED BY <3>1, <3>2, <2>2
  <2>7. n \in Reach(Base) BY <1>1, <1>5, <1>7, LeftCount
  <2>8. \A k \in used : color'[k] = "black" => k \in Reach(Base) BY <2>2, <2>7, <1>4
  <2>9. gc'.work \subseteq Reach(Roots) /\ \A k \in gc'.black : k \in Reach(Roots) /\ color'[k] = "black"
    BY <1>4, <1>5, <2>1, <2>2
  <2> QED BY <1>1, <1>3, <2>1, <2>2, <2>3, <2>4, <2>5, <2>6, <2>8, <2>9, ScanKeeps
<1>8. CASE color[n] = "white" /\ refcount[n] = 0
           /\ color' = Paint(Colored(Visited(n), "grey"), "white")
           /\ gc' = [gc EXCEPT !.work = (@ \ {n}) \cup Colored(Visited(n), "grey")]
  <2>1. PICK N : N = Colored(Visited(n), "grey") OBVIOUS
  <2>2. \A k : k \in N <=> k \in Visited(n) /\ color[k] = "grey" BY <2>1 DEF Colored
  <2>3. \A k \in N : k \in Reach(Roots) /\ k \in used /\ k \in Object /\ color[k] = "grey" BY <1>4, <1>5, <2>2
  <2>4. gc'.phase = "scan" /\ gc'.work = (gc.work \ {n}) \cup N /\ gc'.black = {} /\ GCTyped'
    BY <1>1, <1>3, <1>4, <1>8, <2>1, <2>3 DEF GCTyped
  <2>5. color' \in [Object -> {"black", "white", "grey", "purple"}]
        /\ \A k \in Object : color'[k] = IF k \in N THEN "white" ELSE color[k]
    BY <1>4, <1>8, <2>1 DEF Paint
  <2>6. \A k : k \in Taken' <=> k \in Taken
    <3> SUFFICES ASSUME NEW k PROVE k \in Taken' <=> k \in Taken OBVIOUS
    <3>1. k \in Taken' <=> (k \in Object /\ color'[k] \in {"grey", "white"}) \/ k \in gc'.black BY InTakenNext
    <3>2. k \in Taken <=> (k \in Object /\ color[k] \in {"grey", "white"}) \/ k \in gc.black BY InTaken
    <3> QED BY <3>1, <3>2, <1>1, <2>3, <2>4, <2>5
  <2>7. \A k \in Object : color'[k] = "white" /\ k \notin gc'.work =>
          refcount[k] = 0 /\ \A m \in Visited(k) : color'[m] # "grey"
    <3> SUFFICES ASSUME NEW k \in Object, color'[k] = "white", k \notin gc'.work
                 PROVE  refcount[k] = 0 /\ \A m \in Visited(k) : color'[m] # "grey"
      OBVIOUS
    <3>1. k \notin N /\ color[k] = "white" /\ k \in Reach(Roots) /\ (k # n => k \notin gc.work) BY <1>4, <2>4, <2>5
    <3>2. \A m \in Visited(k) : m \in Object BY <3>1, <1>4
    <3>3. CASE k = n
      <4>1. \A m \in Visited(k) : color'[m] # "grey" BY <3>2, <3>3, <2>2, <2>5
      <4> QED BY <4>1, <3>3, <1>8
    <3>4. CASE k # n
      <4>1. refcount[k] = 0 /\ \A m \in Visited(k) : color[m] # "grey" BY <3>1, <3>4, <1>4
      <4> QED BY <4>1, <3>2, <2>5
    <3> QED BY <3>3, <3>4
  <2>8. \A k \in Object : color'[k] # "purple" /\ (color'[k] # "black" => k \in Reach(Roots)) BY <1>4, <2>3, <2>5
  <2>9. \A k \in Reach(Roots) : color'[k] = "black" /\ k \notin gc'.black => \A m \in Visited(k) : color'[m] = "black"
    <3> SUFFICES ASSUME NEW k \in Reach(Roots), color'[k] = "black", NEW m \in Visited(k) PROVE color'[m] = "black"
      OBVIOUS
    <3>1. k \in Object /\ m \in Object BY <1>4
    <3>2. color[k] = "black" BY <3>1, <2>5
    <3>3. color[m] = "black" BY <3>2, <1>1, <1>4
    <3> QED BY <3>1, <3>3, <2>3, <2>5
  <2>10. \A k \in used : color'[k] = "black" => k \in Reach(Base) BY <2>5, <1>4
  <2>11. gc'.work \subseteq Reach(Roots) BY <1>4, <2>3, <2>4
  <2> QED BY <1>1, <1>3, <2>4, <2>5, <2>6, <2>7, <2>8, <2>9, <2>10, <2>11, ScanKeeps
<1> QED BY <1>2, <1>6, <1>7, <1>8

\* What is black is counted again, one object after the other.
LEMMA gc_scan_blackKeeps ==
  ASSUME IInv, gc_scan_black
  PROVE  IInv'
<1>1. Phase("scan") BY DEF gc_scan_black
<1>2. PICK n \in gc.black :
        /\ refcount' = Count({n}, 1)
        /\ color' = Paint(Visited(n) \ Colored(Object, "black"), "black")
        /\ gc' = [gc EXCEPT !.black = (@ \ {n}) \cup (Visited(n) \ Colored(Object, "black"))]
        /\ UNCHANGED <<used, free_called, dtor_called, nulled, variables, prop, calls, tag>>
  BY DEF gc_scan_black, gcFrame, objectVars, refVars
<1>3. /\ Top("collect") /\ gc.phase = "scan" /\ HeapTyped
      /\ gc \in [phase : {"idle", "mark", "scan", "collect", "dtors", "destroy"},
                 work : SUBSET used, black : SUBSET used, dtors : BOOLEAN, rerun : BOOLEAN,
                 did_rerun : BOOLEAN]
      /\ \A k \in Object : color[k] \in {"black", "white", "grey"} /\ (color[k] # "black" => k \in Reach(Roots))
      /\ gc.work \subseteq Reach(Roots)
      /\ \A k \in gc.black : k \in Reach(Roots) /\ color[k] = "black"
      /\ \A k \in Object : color[k] = "white" /\ k \notin gc.work =>
           refcount[k] = 0 /\ \A m \in Visited(k) : color[m] # "grey"
      /\ \A k \in Reach(Roots) : color[k] = "black" /\ k \notin gc.black => \A m \in Visited(k) : color[m] = "black"
      /\ \A k \in used : color[k] = "black" => k \in Reach(Base)
      /\ \A k \in used : refcount[k] = Total(k) - Cardinality(Following(Taken, k))
      /\ \A k \in Reach(Roots) : k \in used /\ k \in Object /\ \A m \in Visited(k) : m \in Reach(Roots)
      /\ color \in [Object -> {"black", "white", "grey", "purple"}] /\ refcount \in [Object -> Int]
      /\ \A k \in used : k \in Object
  BY <1>1, Scanning DEF HeapTyped
<1>4. n \in Reach(Roots) /\ n \in used /\ n \in Object /\ color[n] = "black" BY <1>2, <1>3
<1>5. PICK N : N = Visited(n) \ Colored(Object, "black") OBVIOUS
<1>6. \A k : k \in N <=> k \in Visited(n) /\ k \in Object /\ color[k] # "black"
  BY <1>3, <1>4, <1>5 DEF Colored
<1>7. \A k \in N : k \in Reach(Roots) /\ k \in used /\ k \in Object BY <1>3, <1>4, <1>6
<1>8. gc'.phase = "scan" /\ gc'.work = gc.work /\ gc'.black = (gc.black \ {n}) \cup N /\ GCTyped'
  BY <1>2, <1>3, <1>5, <1>7 DEF GCTyped
<1>9. color' \in [Object -> {"black", "white", "grey", "purple"}]
      /\ \A k \in Object : color'[k] = IF k \in N THEN "black" ELSE color[k]
  BY <1>2, <1>3, <1>5 DEF Paint
<1>10. /\ refcount' \in [Object -> Int] /\ \A k \in Object \ used : refcount'[k] = 0
       /\ \A k \in Object : refcount'[k] = refcount[k] + Cardinality(Following({n}, k))
  <2>1. /\ refcount' \in [Object -> Int] /\ \A k \in Object \ used : refcount'[k] = 0
        /\ \A k \in Object : refcount'[k] = refcount[k] + 1 * Cardinality(Following({n}, k))
    BY <1>2, <1>3, Counted
  <2>2. \A k : Cardinality(Following({n}, k)) \in Nat BY <1>3, FollowingCount
  <2>3. \A x \in Nat : 1 * x = x OBVIOUS
  <2>4. \A k : 1 * Cardinality(Following({n}, k)) = Cardinality(Following({n}, k)) BY <2>2, <2>3
  <2> QED BY <2>1, <2>4
<1>11. /\ HeapTyped' /\ Stacked' /\ Phased' /\ Isolated' /\ Waiting' /\ Freed' /\ Quiet'
       /\ used' \subseteq Reach(Sources)'
       /\ \A k : Visited(k)' = Visited(k)
       /\ \A k : k \in Reach(Roots)' <=> k \in Reach(Roots)
       /\ \A k : k \in Reach(Base)' <=> k \in Reach(Base)
       /\ \A k : Total(k)' = Total(k)
  BY <1>2, <1>3, <1>8, <1>9, <1>10, PassKeeps
<1>12. PICK T : T = Taken OBVIOUS
<1>13. n \in T BY <1>2, <1>12, InTaken
<1>14. \A k : k \in Taken' <=> k \in T \ {n}
  <2> SUFFICES ASSUME NEW k PROVE k \in Taken' <=> k \in T \ {n} OBVIOUS
  <2>1. k \in Taken' <=> (k \in Object /\ color'[k] \in {"grey", "white"}) \/ k \in gc'.black BY InTakenNext
  <2>2. k \in T <=> (k \in Object /\ color[k] \in {"grey", "white"}) \/ k \in gc.black BY <1>12, InTaken
  <2>3. CASE k \in N
    <3>1. k \in Object /\ color[k] \in {"grey", "white"} /\ k # n BY <2>3, <1>3, <1>4, <1>6
    <3> QED BY <3>1, <2>1, <2>2, <2>3, <1>8
  <2>4. CASE k \notin N
    <3>1. k \in gc'.black <=> k \in gc.black /\ k # n BY <2>4, <1>8
    <3>2. k \in Object => color'[k] = color[k] BY <2>4, <1>9
    <3> QED BY <3>1, <3>2, <2>1, <2>2, <1>4
  <2> QED BY <2>3, <2>4
<1>15. Exact'
  <2> SUFFICES ASSUME NEW k \in used PROVE refcount'[k] = Total(k)' - Cardinality(Following(Taken, k))'
    BY <1>2, <1>8 DEF Exact
  <2>1. Cardinality(Following(Taken, k))' = Cardinality(Following(T \ {n}, k)) BY <1>2, <1>14, TakenFollowing
  <2>2. k \in Object /\ refcount[k] = Total(k) - Cardinality(Following(T, k)) BY <1>3, <1>12
  <2>3. Total(k) \in Nat /\ Cardinality(Following(T, k)) \in Nat /\ IsFiniteSet(Following(T, k))
    BY <2>2, <1>3, Totals, FollowingCount DEF IInv
  <2>4. refcount'[k] = refcount[k] + Cardinality(Following({n}, k)) BY <2>2, <1>10
  <2>5. CASE k \in Visited(n)
    <3>1. Following({n}, k) = {n} /\ Following(T \ {n}, k) = Following(T, k) \ {n} /\ n \in Following(T, k)
      BY <2>5, <1>13 DEF Following
    <3>2. Cardinality(Following({n}, k)) = 1 BY <3>1, FS_Singleton
    <3>3. Cardinality(Following(T \ {n}, k)) = Cardinality(Following(T, k)) - 1
      <4>1. PICK F : F = Following(T, k) OBVIOUS
      <4>2. IsFiniteSet(F) /\ n \in F /\ Following(T \ {n}, k) = F \ {n} BY <4>1, <3>1, <2>3
      <4>3. Cardinality(F \ {n}) = Cardinality(F) - 1 BY <4>2, FS_RemoveElement
      <4> QED BY <4>1, <4>2, <4>3
    <3> QED BY <3>2, <3>3, <2>1, <2>2, <2>3, <2>4, <1>11
  <2>6. CASE k \notin Visited(n)
    <3>1. Following({n}, k) = {} /\ Following(T \ {n}, k) = Following(T, k) BY <2>6 DEF Following
    <3>2. Cardinality(Following({n}, k)) = 0 BY <3>1, FS_EmptySet
    <3> QED BY <3>1, <3>2, <2>1, <2>2, <2>3, <2>4, <1>11
  <2> QED BY <2>5, <2>6
<1>16. Scanned'
  <2>1. \A k \in Object : color'[k] # "purple" /\ (color'[k] # "black" => k \in Reach(Roots)') BY <1>3, <1>9, <1>11
  <2>2. gc'.work \subseteq Reach(Roots)' BY <1>3, <1>8, <1>11
  <2>3. \A k \in gc'.black : k \in Reach(Roots)' /\ color'[k] = "black" BY <1>3, <1>7, <1>8, <1>9, <1>11
  <2>4. \A k \in Object : color'[k] = "white" /\ k \notin gc'.work =>
          refcount'[k] = 0 /\ \A m \in Visited(k)' : color'[m] # "grey"
    <3> SUFFICES ASSUME NEW k \in Object, color'[k] = "white", k \notin gc.work
                 PROVE  refcount'[k] = 0 /\ \A m \in Visited(k) : color'[m] # "grey"
      BY <1>8, <1>11
    <3>1. k \notin N /\ color[k] = "white" /\ k \in Reach(Roots) BY <1>3, <1>9
    <3>2. refcount[k] = 0 /\ \A m \in Visited(k) : color[m] # "grey" /\ m \in Object BY <3>1, <1>3
    <3>3. k \notin Visited(n) BY <3>1, <1>6
    <3>4. Following({n}, k) = {} BY <3>3 DEF Following
    <3>5. Cardinality(Following({n}, k)) = 0 BY <3>4, FS_EmptySet
    <3>6. refcount'[k] = 0
      <4>1. refcount'[k] = refcount[k] + Cardinality(Following({n}, k)) BY <1>10
      <4> QED BY <4>1, <3>2, <3>5
    <3> QED BY <3>2, <3>6, <1>9
  <2>5. \A k \in Reach(Roots)' : color'[k] = "black" /\ k \notin gc'.black => \A m \in Visited(k)' : color'[m] = "black"
    <3> SUFFICES ASSUME NEW k \in Reach(Roots), color'[k] = "black", k \notin gc'.black, NEW m \in Visited(k)
                 PROVE  color'[m] = "black"
      BY <1>11
    <3>1. k \in Object /\ m \in Object BY <1>3
    <3>2. CASE k = n BY <3>1, <3>2, <1>6, <1>9
    <3>3. CASE k # n
      <4>1. k \notin N /\ k \notin gc.black BY <3>3, <1>8
      <4>2. color[k] = "black" BY <4>1, <3>1, <1>9
      <4>3. color[m] = "black" BY <4>1, <4>2, <1>3
      <4> QED BY <4>3, <3>1, <1>9
    <3> QED BY <3>2, <3>3
  <2> QED BY <2>1, <2>2, <2>3, <2>4, <2>5 DEF Scanned
<1>17. Rooted'
  <2>1. n \in Reach(Base) BY <1>3, <1>4
  <2>2. \A k \in Visited(n) : k \in Reach(Base) BY <2>1, <1>3, ReachFacts
  <2>3. \A k \in used : color'[k] = "black" => k \in Reach(Base) BY <2>2, <1>3, <1>6, <1>9
  <2> QED BY <2>3, <1>2, <1>11 DEF Rooted
<1> QED BY <1>8, <1>11, <1>15, <1>16, <1>17 DEF IInv

\* The end of the scan: there is white and black, and what is white is
\* referred to by white objects only and held by nothing.
LEMMA ScanEnds ==
  ASSUME IInv, Phase("scan"), gc.work = {}, gc.black = {}, Colored(Roots, "grey") = {}
  PROVE  /\ \A n \in Object : color[n] \in {"black", "white"}
         /\ \A n : n \in Taken <=> n \in Object /\ color[n] = "white"
         /\ \A n \in Object : color[n] = "white" =>
              /\ n \in used /\ n \notin free_called /\ variables[n] = 0
              /\ \A c \in CallSet(calls) : c.obj # n
              /\ \A m : <<m, n>> \in prop => m \in Object /\ color[m] = "white"
         /\ \A n : n \in Closure(Roots \ Colored(Roots, "black"), Colored(Object, "white"))
                     <=> n \in Object /\ color[n] = "white"
<1>1. /\ Top("collect") /\ HeapTyped
      /\ \A k \in Object : color[k] \in {"black", "white", "grey"} /\ (color[k] # "black" => k \in Reach(Roots))
      /\ \A k \in Object : color[k] = "white" => refcount[k] = 0 /\ \A m \in Visited(k) : color[m] # "grey"
      /\ \A k \in Reach(Roots) : color[k] = "black" => \A m \in Visited(k) : color[m] = "black"
      /\ \A k \in used : refcount[k] = Total(k) - Cardinality(Following(Taken, k))
      /\ \A k \in Reach(Roots) : k \in used /\ k \in Object /\ \A m \in Visited(k) : m \in Reach(Roots)
  BY Scanning
<1>2. Roots \subseteq Reach(Roots) /\ \A k : k \in Roots => k \in Object /\ color[k] # "grey"
  <2>1. Roots \subseteq Object BY DEF Roots, Tagged
  <2> QED BY <2>1, <1>1, ReachFacts DEF Colored
<1>3. \A k \in Reach(Roots) : color[k] # "grey"
  <2> DEFINE X == {k \in Reach(Roots) : color[k] # "grey"}
  <2>1. Roots \subseteq X BY <1>2
  <2>2. ASSUME NEW k \in X, NEW m \in Visited(k) PROVE m \in X
    <3>1. m \in Reach(Roots) BY <1>1
    <3>2. color[k] = "black" => color[m] = "black" BY <1>1
    <3>3. color[k] = "white" => color[m] # "grey" BY <1>1
    <3>4. color[k] \in {"black", "white"} BY <1>1
    <3> QED BY <3>1, <3>2, <3>3, <3>4
  <2>3. Reach(Roots) \subseteq X
    <3> HIDE DEF X
    <3> QED BY <2>1, <2>2, ReachWithin
  <2> QED BY <2>3
<1>4. \A k \in Object : color[k] \in {"black", "white"} BY <1>1, <1>3
<1>5. \A k : k \in Taken <=> k \in Object /\ color[k] = "white"
  <2> SUFFICES ASSUME NEW k PROVE k \in Taken <=> k \in Object /\ color[k] = "white" OBVIOUS
  <2>1. k \in Taken <=> (k \in Object /\ color[k] \in {"grey", "white"}) \/ k \in gc.black BY InTaken
  <2> QED BY <2>1, <1>4
<1>6. ASSUME NEW n \in Object, color[n] = "white"
      PROVE  /\ n \in used /\ n \notin free_called /\ variables[n] = 0
             /\ \A c \in CallSet(calls) : c.obj # n
             /\ \A m : <<m, n>> \in prop => m \in Object /\ color[m] = "white"
  <2>1. n \in used /\ refcount[n] = 0 BY <1>1, <1>6
  <2>2. PICK T : T = Taken OBVIOUS
  <2>3. Total(n) = variables[n] + Cardinality(In(n)) + HoldsIn(calls, n) /\ variables[n] \in Nat /\ HoldsIn(calls, n) \in Nat
        /\ Cardinality(In(n)) \in Nat
    BY <1>1, Totals DEF IInv, Total
  <2>4. /\ Cardinality(Following(T, n)) \in Nat /\ Cardinality(Following(T, n)) <= Cardinality(In(n))
        /\ Cardinality(Following(T, n)) = Cardinality(In(n)) => \A m : <<m, n>> \in prop => m \in T /\ m \notin free_called
    BY <1>1, FollowingCount
  <2>5. 0 = Total(n) - Cardinality(Following(T, n)) BY <2>1, <2>2, <1>1
  <2>6. variables[n] = 0 /\ HoldsIn(calls, n) = 0 /\ Cardinality(Following(T, n)) = Cardinality(In(n))
    <3>1. PICK v \in Nat, i \in Nat, h \in Nat, f \in Nat :
            v = variables[n] /\ i = Cardinality(In(n)) /\ h = HoldsIn(calls, n) /\ f = Cardinality(Following(T, n))
      BY <2>3, <2>4
    <3>2. Total(n) = v + i + h BY <2>3, <3>1
    <3>3. 0 = (v + i + h) - f BY <2>5, <3>1, <3>2
    <3>4. f <= i BY <2>4, <3>1
    <3>5. v = 0 /\ h = 0 /\ f = i BY <3>3, <3>4
    <3> QED BY <3>1, <3>5
  <2>7. \A m : <<m, n>> \in prop => m \in Object /\ color[m] = "white" BY <2>2, <2>4, <2>6, <1>5
  <2>8. \A c \in CallSet(calls) : c.obj # n
    <3>1. calls \in Seq(CallRec) BY DEF IInv, Stacked
    <3>2. \A c \in CallSet(calls) : c.obj = n => c.op = "del" BY <3>1, <2>6, HeldOnce
    <3>3. \A c \in CallSet(calls) : c.op \notin {"del", "gcdtor"} BY <1>1, CollectTop
    <3> QED BY <3>2, <3>3
  <2>9. n \notin free_called
    <3>1. gc.phase = "scan" BY DEF Phase
    <3>2. nulled = {} BY <3>1 DEF IInv, Phased
    <3>3. n \in free_called => Call("free", n) \in CallSet(calls) BY <3>2 DEF IInv, Freed
    <3>4. Call("free", n).obj = n BY DEF Call
    <3> QED BY <3>3, <3>4, <2>8
  <2> QED BY <2>1, <2>6, <2>7, <2>8, <2>9
<1>7. PICK W : W = Colored(Object, "white") OBVIOUS
<1>8. PICK S : S = Roots \ Colored(Roots, "black") OBVIOUS
<1>9. \A k : k \in W <=> k \in Object /\ color[k] = "white" BY <1>7 DEF Colored
<1>10. \A k : k \in S <=> k \in Roots /\ color[k] = "white"
  <2> SUFFICES ASSUME NEW k PROVE k \in S <=> k \in Roots /\ color[k] = "white" OBVIOUS
  <2>1. k \in S <=> k \in Roots /\ color[k] # "black" BY <1>8 DEF Colored
  <2> QED BY <2>1, <1>2, <1>4
<1>11. PICK G : G = Closure(S, W) OBVIOUS
<1>12. S \subseteq G /\ \A n \in G : (W \cap Visited(n)) \subseteq G BY <1>1, <1>11, ClosureFacts
<1>13. G \subseteq W
  <2>1. S \subseteq W BY <1>2, <1>9, <1>10
  <2>2. \A n \in W : (W \cap Visited(n)) \subseteq W OBVIOUS
  <2> QED BY <2>1, <2>2, <1>11, ClosureWithin
<1>14. W \subseteq G
  <2> DEFINE X == {k \in Reach(Roots) : color[k] = "black" \/ k \in G}
  <2>1. Roots \subseteq X
    <3>1. \A k \in Roots : color[k] = "black" \/ k \in S BY <1>2, <1>4, <1>10
    <3> QED BY <3>1, <1>2, <1>12
  <2>2. ASSUME NEW k \in X, NEW m \in Visited(k) PROVE m \in X
    <3>1. m \in Reach(Roots) /\ m \in Object BY <1>1
    <3>2. color[k] = "black" => color[m] = "black" BY <1>1
    <3>3. ASSUME k \in G PROVE color[m] = "black" \/ m \in G
      <4>1. color[m] = "black" \/ m \in W BY <3>1, <1>4, <1>9
      <4> QED BY <4>1, <3>3, <1>12
    <3> QED BY <3>1, <3>2, <3>3
  <2>3. Reach(Roots) \subseteq X
    <3> HIDE DEF X
    <3> QED BY <2>1, <2>2, ReachWithin
  <2>4. ASSUME NEW k \in W PROVE k \in G
    <3>1. color[k] = "white" /\ k \in Reach(Roots) BY <1>1, <1>9
    <3> QED BY <3>1, <2>3
  <2> QED BY <2>4
<1>15. \A n : n \in Closure(Roots \ Colored(Roots, "black"), Colored(Object, "white")) <=> n \in Object /\ color[n] = "white"
  BY <1>7, <1>8, <1>9, <1>11, <1>13, <1>14
<1> QED BY <1>4, <1>5, <1>6, <1>15

\* What is white is garbage; its references count again.
LEMMA gc_collect_rootsKeeps ==
  ASSUME IInv, gc_collect_roots
  PROVE  IInv'
<1>1. Phase("scan") /\ gc.work = {} /\ gc.black = {} /\ Colored(Roots, "grey") = {} BY DEF gc_collect_roots
<1>2. PICK K : K = Colored(Roots, "black") OBVIOUS
<1>3. PICK G : G = Closure(Roots \ K, Colored(Object, "white")) OBVIOUS
<1>4. /\ tag' = [n \in Object |-> IF n \in K THEN "none" ELSE IF n \in G THEN "garbage" ELSE tag[n]]
      /\ color' = [n \in Object |-> IF n \in G THEN "black" ELSE color[n]]
      /\ refcount' = Count(G, 1)
      /\ gc' = [gc EXCEPT !.phase = "collect", !.dtors = (G \cap (HasDtor \ dtor_called) # {})]
      /\ UNCHANGED <<used, free_called, dtor_called, nulled, variables, prop, calls>>
  BY <1>2, <1>3 DEF gc_collect_roots, Paint, gcFrame, objectVars, refVars
<1>5. /\ \A n \in Object : color[n] \in {"black", "white"}
      /\ \A n : n \in Taken <=> n \in G
      /\ \A n \in G : /\ n \in Object /\ color[n] = "white"
                      /\ n \in used /\ n \notin free_called /\ variables[n] = 0
                      /\ \A c \in CallSet(calls) : c.obj # n
                      /\ \A m : <<m, n>> \in prop => m \in G
      /\ \A n \in Object : n \in G <=> color[n] = "white"
  <2>1. \A n : n \in G <=> n \in Object /\ color[n] = "white" BY <1>1, <1>2, <1>3, ScanEnds
  <2> QED BY <2>1, <1>1, ScanEnds
<1>6. /\ Top("collect") /\ gc.phase = "scan" /\ HeapTyped
      /\ \A k \in used : color[k] = "black" => k \in Reach(Base)
      /\ \A k \in used : refcount[k] = Total(k) - Cardinality(Following(Taken, k))
      /\ refcount \in [Object -> Int] /\ \A k \in used : k \in Object
  BY <1>1, Scanning DEF HeapTyped
<1>7. Garbage = {} /\ Tagged("dtor") = {} /\ nulled = {} BY <1>6 DEF IInv, Phased
<1>8. /\ calls # <<>> /\ calls[1].op = "collect" /\ Collects(calls) /\ Above(calls) = {}
      /\ \A c \in CallSet(calls) : c.op \notin {"del", "gcdtor"}
  BY <1>6, CollectTop
<1>9. \A n \in Object : tag'[n] = IF n \in G THEN "garbage" ELSE "none"
  <2> SUFFICES ASSUME NEW n \in Object PROVE tag'[n] = IF n \in G THEN "garbage" ELSE "none" OBVIOUS
  <2>1. tag[n] \in {"none", "root"}
    <3>1. tag[n] \in {"none", "root", "garbage", "dtor"} BY <1>6 DEF HeapTyped
    <3>2. tag[n] # "garbage" /\ tag[n] # "dtor" BY <1>7 DEF Garbage, Tagged
    <3> QED BY <3>1, <3>2
  <2>2. n \in K <=> tag[n] = "root" /\ color[n] = "black" BY <1>2 DEF Colored, Roots, Tagged
  <2>3. tag'[n] = IF n \in K THEN "none" ELSE IF n \in G THEN "garbage" ELSE tag[n] BY <1>4
  <2> QED BY <2>1, <2>2, <2>3, <1>5
<1>10. \A n \in Object : color'[n] = "black" BY <1>4, <1>5
<1>11. /\ refcount' \in [Object -> Int] /\ \A k \in Object \ used : refcount'[k] = 0
       /\ \A k \in Object : refcount'[k] = refcount[k] + Cardinality(Following(G, k))
  <2>1. /\ refcount' \in [Object -> Int] /\ \A k \in Object \ used : refcount'[k] = 0
        /\ \A k \in Object : refcount'[k] = refcount[k] + 1 * Cardinality(Following(G, k))
    BY <1>4, <1>6, Counted
  <2>2. \A k : Cardinality(Following(G, k)) \in Nat BY <1>6, FollowingCount
  <2>3. \A x \in Nat : 1 * x = x OBVIOUS
  <2>4. \A k : 1 * Cardinality(Following(G, k)) = Cardinality(Following(G, k)) BY <2>2, <2>3
  <2> QED BY <2>1, <2>4
<1>12. HeapTyped'
  <2>1. tag' \in [Object -> {"none", "root", "garbage", "dtor"}] /\ color' \in [Object -> {"black", "white", "grey", "purple"}]
    <3>1. tag' = [n \in Object |-> tag'[n]] /\ color' = [n \in Object |-> color'[n]] BY <1>4
    <3> QED BY <3>1, <1>9, <1>10
  <2>2. \A k \in Object \ used : tag'[k] = "none" BY <1>5, <1>9
  <2> QED BY <2>1, <2>2, <1>4, <1>6, <1>11 DEF HeapTyped
<1>13. gc'.phase = "collect" /\ gc'.work = {} /\ gc'.black = {} /\ GCTyped'
       /\ gc'.dtors = (G \cap (HasDtor \ dtor_called) # {})
  <2>1. gc \in [phase : {"idle", "mark", "scan", "collect", "dtors", "destroy"},
                work : SUBSET used, black : SUBSET used, dtors : BOOLEAN, rerun : BOOLEAN,
                did_rerun : BOOLEAN]
    BY DEF IInv, GCTyped
  <2>2. (G \cap (HasDtor \ dtor_called) # {}) \in BOOLEAN OBVIOUS
  <2>3. gc'.phase = "collect" /\ gc'.work = {} /\ gc'.black = {} /\ gc'.dtors = (G \cap (HasDtor \ dtor_called) # {})
    BY <2>1, <1>1, <1>4
  <2>4. GCTyped' BY <2>1, <2>2, <1>4 DEF GCTyped
  <2> QED BY <2>3, <2>4
<1>14. Stacked'
  <2>1. ASSUME NEW c \in CallSet(calls) PROVE CallFits(c)'
    <3>1. CallFits(c) /\ c.op \notin {"del", "gcdtor"} BY <1>8 DEF IInv, Stacked
    <3> QED BY <3>1, <1>4 DEF CallFits
  <2>2. ~Top("undtor")' BY <1>4, <1>8 DEF Top
  <2> QED BY <2>1, <2>2, <1>4 DEF IInv, Stacked
<1>15. Exact'
  <2> SUFFICES ASSUME NEW k \in used PROVE refcount'[k] = Total(k)' BY <1>4, <1>13 DEF Exact
  <2>1. Total(k)' = Total(k) BY <1>4 DEF Total, In
  <2>2. k \in Object /\ refcount[k] = Total(k) - Cardinality(Following(Taken, k)) BY <1>6
  <2>3. Following(Taken, k) = Following(G, k) BY <1>5 DEF Following
  <2>4. refcount'[k] = refcount[k] + Cardinality(Following(G, k)) BY <2>2, <1>11
  <2>5. Total(k) \in Nat /\ Cardinality(Following(G, k)) \in Nat BY <2>2, <1>6, Totals, FollowingCount DEF IInv
  <2>6. refcount[k] = Total(k) - Cardinality(Following(G, k)) BY <2>2, <2>3
  <2>7. refcount'[k] = Total(k) BY <2>4, <2>5, <2>6
  <2> QED BY <2>1, <2>7
<1>16. \A k : k \in Garbage' <=> k \in G
  <2> SUFFICES ASSUME NEW k PROVE k \in Garbage' <=> k \in G OBVIOUS
  <2>1. k \in Garbage' <=> k \in Object /\ tag'[k] = "garbage" BY InGarbageNext
  <2> QED BY <2>1, <1>5, <1>9
<1>17. Tagged("dtor")' = {} BY <1>9 DEF Tagged
<1>18. Phased'
  <2>1. Garbage' = G BY <1>16
  <2>2. gc'.dtors = (Garbage' \cap (HasDtor \ dtor_called') # {}) BY <2>1, <1>4, <1>13
  <2>3. Top("collect")' BY <1>4, <1>6 DEF Top
  <2>4. \A n \in Object : color'[n] = IF tag'[n] \in {"root", "dtor"} THEN "purple" ELSE "black" BY <1>9, <1>10
  <2> QED BY <2>2, <2>3, <2>4, <1>4, <1>7, <1>8, <1>13, <1>17 DEF Phased
<1>19. Isolated'
  <2> SUFFICES ASSUME NEW g \in Garbage'
               PROVE  /\ variables'[g] = 0 /\ \A m \in used' : <<m, g>> \in prop' => m \in Garbage'
                      /\ \A d \in CallSet(calls') :
                           d.obj = g => d.op \in {"del", "free", "gcfree"} /\ d \notin Below(calls')
    BY DEF Isolated
  <2>1. g \in G BY <1>16
  <2> QED BY <2>1, <1>4, <1>5, <1>16
<1>20. Waiting' BY <1>17 DEF Waiting
<1>21. Freed'
  <2>1. \A k : Succ(k)' = Succ(k) BY <1>4 DEF Succ
  <2> QED BY <2>1, <1>4, <1>7 DEF IInv, Freed
<1>22. Scanned' BY <1>13 DEF Scanned
<1>23. \A n : Visited(n)' = Visited(n) BY <1>4 DEF Visited, Succ
<1>24. Rooted'
  <2>1. PICK X : X = Reach(Sources)' OBVIOUS
  <2>2. Sources' \subseteq X /\ \A n \in X : \A m \in Visited(n) : m \in X
    <3>1. \A S : (S \subseteq Reach(S) /\ \A n \in Reach(S) : \A m \in Visited(n) : m \in Reach(S))' BY <1>12, ReachFactsNext
    <3>2. Sources' \subseteq Reach(Sources)' /\ \A n \in Reach(Sources)' : \A m \in Visited(n)' : m \in Reach(Sources)' BY <3>1
    <3> QED BY <3>2, <2>1, <1>23
  <2>3. Base \subseteq X
    <3> SUFFICES ASSUME NEW n \in Base PROVE n \in X OBVIOUS
    <3>1. \/ n \in Object /\ variables[n] > 0
          \/ \E c \in CallSet(calls) : c.obj = n
          \/ \E m \in free_called : <<m, n>> \in prop
      BY <1>6, InBase
    <3>2. \/ n \in Object /\ variables'[n] > 0
          \/ \E c \in CallSet(calls') : c.obj = n
          \/ \E m \in free_called' : <<m, n>> \in prop'
      BY <3>1, <1>4
    <3>3. n \in Sources' BY <3>2, <1>12, InSourcesNext
    <3> QED BY <3>3, <2>2
  <2>4. Reach(Base) \subseteq X BY <2>2, <2>3, ReachWithin
  <2>5. ASSUME NEW n \in used PROVE n \in X
    <3>1. CASE n \in G
      <4>1. n \in Object /\ tag'[n] # "none" BY <3>1, <1>6, <1>9
      <4>2. n \in Sources' BY <4>1, <1>12, InSourcesNext
      <4> QED BY <4>2, <2>2
    <3>2. CASE n \notin G
      <4>1. color[n] = "black" BY <3>2, <1>5, <1>6
      <4> QED BY <4>1, <2>4, <1>6
    <3> QED BY <3>1, <3>2
  <2>6. used' \subseteq Reach(Sources)' BY <2>1, <2>5, <1>4
  <2> QED BY <2>6, <1>13 DEF Rooted
<1>25. Quiet'
  <2>1. PICK Y : Y = Reach(Outside)' OBVIOUS
  <2>2. Outside' \subseteq Y /\ \A n \in Y : \A m \in Visited(n) : m \in Y
    <3>1. \A S : (S \subseteq Reach(S) /\ \A n \in Reach(S) : \A m \in Visited(n) : m \in Reach(S))' BY <1>12, ReachFactsNext
    <3>2. Outside' \subseteq Reach(Outside)' /\ \A n \in Reach(Outside)' : \A m \in Visited(n)' : m \in Reach(Outside)' BY <3>1
    <3> QED BY <3>2, <2>1, <1>23
  <2>3. Base \subseteq Y
    <3> SUFFICES ASSUME NEW n \in Base PROVE n \in Y OBVIOUS
    <3>1. \/ n \in Object /\ variables[n] > 0
          \/ \E c \in CallSet(calls) : c.obj = n
          \/ \E m \in free_called : <<m, n>> \in prop
      BY <1>6, InBase
    <3>2. n \notin G
      <4> SUFFICES ASSUME n \in G PROVE FALSE OBVIOUS
      <4>1. variables[n] = 0 /\ (\A c \in CallSet(calls) : c.obj # n) /\ (\A m : <<m, n>> \in prop => m \in G) BY <1>5
      <4>2. PICK m \in free_called : <<m, n>> \in prop BY <3>1, <4>1
      <4> QED BY <4>1, <4>2, <1>5
    <3>3. ~(n \in Object /\ tag'[n] = "garbage") BY <3>2, <1>9
    <3>4. \A m \in free_called : tag'[m] # "garbage"
      <4>1. \A m \in free_called : m \in Object BY <1>6 DEF HeapTyped
      <4> QED BY <4>1, <1>5, <1>9
    <3>5. \/ n \in Object /\ variables'[n] > 0
          \/ \E c \in CallSet(calls') : c.obj = n
          \/ \E m \in free_called' : tag'[m] # "garbage" /\ <<m, n>> \in prop'
      BY <3>1, <3>4, <1>4
    <3>6. n \in Outside' BY <3>3, <3>5, <1>12, InOutsideNext
    <3> QED BY <3>6, <2>2
  <2>4. Reach(Base) \subseteq Y BY <2>2, <2>3, ReachWithin
  <2>5. \A n \in used : n \in G \/ n \in Y
    <3>1. \A n \in used : n \notin G => color[n] = "black" BY <1>5, <1>6
    <3> QED BY <3>1, <2>4, <1>6
  <2>6. used' \subseteq (Garbage \cup Reach(Outside))' BY <2>1, <2>5, <1>4, <1>16
  <2>7. Above(calls)' = {} BY <1>4, <1>8
  <2> QED BY <2>6, <2>7 DEF Quiet
<1> QED BY <1>12, <1>13, <1>14, <1>15, <1>18, <1>19, <1>20, <1>21, <1>22, <1>24, <1>25 DEF IInv

-----------------------------------------------------------------------------
(* Every behaviour keeps the invariant.                                    *)

LEMMA InitHolds ==
  GCInit => IInv
<1> SUFFICES ASSUME GCInit PROVE IInv OBVIOUS
<1>1. /\ used = {} /\ variables = [n \in Object |-> 0] /\ prop = {} /\ refcount = [n \in Object |-> 0]
      /\ color = [n \in Object |-> "black"] /\ tag = [n \in Object |-> "none"]
      /\ dtor_called = {} /\ free_called = {} /\ nulled = {} /\ calls = <<>>
      /\ gc.phase = "idle" /\ gc.work = {} /\ gc.black = {}
  BY DEF GCInit, Idle
<1>2. HeapTyped BY <1>1, GCAssumption DEF HeapTyped
<1>3. GCTyped BY DEF GCTyped, GCInit, Idle
<1>4. calls \in Seq(CallRec) /\ DOMAIN calls = {} /\ ~Top("undtor") BY <1>1 DEF Top
<1>5. CallSet(calls) = {} /\ ~Collects(calls) /\ Shape(calls) BY <1>4 DEF CallSet, Collects, Shape
<1>6. Stacked BY <1>4, <1>5 DEF Stacked
<1>7. Garbage = {} /\ Tagged("dtor") = {} BY <1>1 DEF Garbage, Tagged
<1>8. Phased BY <1>1, <1>5, <1>7 DEF Phased
<1>9. Exact /\ Isolated /\ Waiting /\ Freed /\ Scanned /\ Rooted /\ Quiet
  BY <1>1, <1>7 DEF Exact, Isolated, Waiting, Freed, Scanned, Rooted, Quiet
<1> QED BY <1>2, <1>3, <1>6, <1>8, <1>9 DEF IInv

LEMMA StutterKeeps ==
  ASSUME IInv, UNCHANGED gcVars
  PROVE  IInv'
<1>1. UNCHANGED <<used, dtor_called, free_called, nulled, variables, prop, refcount, color, tag, calls, gc>>
  BY DEF gcVars, objectVars, refVars
<1>2. HeapTyped' /\ GCTyped' BY <1>1 DEF IInv, HeapTyped, GCTyped
<1>3. Stacked' BY <1>1 DEF IInv, Stacked, CallFits, Top
<1>4. \A n : Visited(n)' = Visited(n) /\ Succ(n)' = Succ(n) BY <1>1 DEF Visited, Succ
<1>5. Garbage' = Garbage /\ Tagged("dtor")' = Tagged("dtor") /\ Roots' = Roots BY <1>1 DEF Garbage, Roots, Tagged
<1>6. \A S : \A n : n \in Reach(S)' <=> n \in Reach(S) BY <1>1, ReachSame
<1>7. Exact'
  <2>1. Taken' = Taken BY <1>1 DEF Taken, Colored
  <2>2. \A n : Following(Taken, n)' = Following(Taken, n) BY <2>1, <1>4 DEF Following
  <2>3. \A n : Total(n)' = Total(n) BY <1>1 DEF Total, In
  <2>4. \A n \in used : refcount[n] = IF gc.phase = "scan" THEN Total(n) - Cardinality(Following(Taken, n)) ELSE Total(n)
    BY DEF IInv, Exact
  <2> QED BY <2>2, <2>3, <2>4, <1>1 DEF Exact
<1>8. Phased' BY <1>1, <1>5 DEF IInv, Phased, Top
<1>9. Isolated' /\ Waiting' BY <1>1, <1>5 DEF IInv, Isolated, Waiting
<1>10. Freed' BY <1>1, <1>4 DEF IInv, Freed
<1>11. Scanned'
  <2>1. \A n : n \in Reach(Roots)' <=> n \in Reach(Roots) BY <1>5, <1>6
  <2> QED BY <2>1, <1>1, <1>4 DEF IInv, Scanned
<1>12. Base' = Base /\ Sources' = Sources /\ Outside' = Outside
  BY <1>1, <1>4, <1>5 DEF Base, Sources, Outside, Variables, Held
<1>13. Rooted'
  <2>1. \A n : (n \in Reach(Sources)' <=> n \in Reach(Sources)) /\ (n \in Reach(Base)' <=> n \in Reach(Base))
    BY <1>6, <1>12
  <2> QED BY <2>1, <1>1 DEF IInv, Rooted
<1>14. Quiet'
  <2>1. \A n : n \in Reach(Outside)' <=> n \in Reach(Outside) BY <1>6, <1>12
  <2> QED BY <2>1, <1>1, <1>5 DEF IInv, Quiet
<1> QED BY <1>2, <1>3, <1>7, <1>8, <1>9, <1>10, <1>11, <1>13, <1>14 DEF IInv

LEMMA NextKeeps ==
  ASSUME IInv, [GCNext]_gcVars
  PROVE  IInv'
<1>1. CASE Program
  <2>1. CASE \E n \in Object : New(n) \/ Copy(n) \/ Unset(n)
    BY <2>1, NewKeeps, CopyKeeps, UnsetKeeps
  <2>2. CASE \E m, n \in Object : SetProperty(m, n) \/ UnsetProperty(m, n)
    BY <2>2, SetPropertyKeeps, UnsetPropertyKeeps
  <2>3. CASE CollectCall \/ DtorReturns
    BY <2>3, CollectCallKeeps, DtorReturnsKeeps
  <2> QED BY <1>1, <2>1, <2>2, <2>3 DEF Program
<1>2. CASE Delete
  BY <1>2, DelNulledKeeps, DelDestructorKeeps, DelFreeKeeps, DelAfterKeeps, FreePropertyKeeps, FreeDoneKeeps
  DEF Delete
<1>3. CASE Full
  BY <1>3, FullKeeps
<1>4. CASE Collect
  BY <1>4, gc_mark_rootsKeeps, gc_scan_rootsKeeps, gc_scanKeeps, gc_scan_blackKeeps, gc_collect_rootsKeeps,
     NothingToFreeKeeps, NoDestructorsKeeps, MarkDtorGarbageKeeps, gc_call_destructorsKeeps,
     DestructorCalledKeeps, DestructorsCalledKeeps, DestroyGarbageKeeps, GarbageDestroyedKeeps, CollectEndsKeeps
  DEF Collect
<1>5. CASE UNCHANGED gcVars
  BY <1>5, StutterKeeps
<1> QED BY <1>1, <1>2, <1>3, <1>4, <1>5 DEF GCNext

\* The collector and the program, step by step, keep the invariant from the
\* empty heap on.
THEOREM GCInvariant == GCSpec => []IInv
<1>1. IInv /\ [GCNext]_gcVars => IInv' BY NextKeeps
<1> QED BY <1>1, InitHolds, PTL DEF GCSpec

-----------------------------------------------------------------------------
(* What the invariant says of the heap.                                    *)

LEMMA TypesHold ==
  IInv => GCTypeOK
<1> SUFFICES ASSUME IInv PROVE GCTypeOK OBVIOUS
<1>1. HeapTyped /\ GCTyped /\ Stacked BY DEF IInv
<1>2. ASSUME NEW n \in Object PROVE refcount[n] \in Nat
  <2>1. CASE n \notin used
    <3>1. refcount[n] = 0 BY <2>1, <1>1 DEF HeapTyped
    <3> QED BY <3>1
  <2>2. CASE n \in used
    <3>1. Total(n) \in Nat /\ variables[n] \in Nat /\ Cardinality(In(n)) \in Nat /\ HoldsIn(calls, n) \in Nat
      BY <1>1, Totals
    <3>2. CASE gc.phase # "scan"
      <4>1. refcount[n] = Total(n) BY <2>2, <3>2 DEF IInv, Exact
      <4> QED BY <3>1, <4>1
    <3>3. CASE gc.phase = "scan"
      <4>1. refcount[n] = Total(n) - Cardinality(Following(Taken, n)) BY <2>2, <3>3 DEF IInv, Exact
      <4>2. PICK T : T = Taken OBVIOUS
      <4>3. Cardinality(Following(T, n)) \in Nat /\ Cardinality(Following(T, n)) <= Cardinality(In(n))
        BY <1>1, FollowingCount
      <4>4. Cardinality(In(n)) <= Total(n) BY <3>1 DEF Total
      <4>5. PICK f \in Nat, i \in Nat, t \in Nat :
              f = Cardinality(Following(T, n)) /\ i = Cardinality(In(n)) /\ t = Total(n)
        BY <3>1, <4>3
      <4>6. refcount[n] = t - f /\ f <= i /\ i <= t BY <4>1, <4>2, <4>3, <4>4, <4>5
      <4> QED BY <4>6
    <3> QED BY <3>2, <3>3
  <2> QED BY <2>1, <2>2
<1>3. gc.phase = "idle" => \A n \in Object : color[n] = IF tag[n] = "root" THEN "purple" ELSE "black"
  <2> SUFFICES ASSUME gc.phase = "idle", NEW n \in Object
               PROVE  color[n] = IF tag[n] = "root" THEN "purple" ELSE "black"
    OBVIOUS
  <2>1. Tagged("dtor") = {} /\ color[n] = IF tag[n] \in {"root", "dtor"} THEN "purple" ELSE "black"
    BY DEF IInv, Phased
  <2>2. tag[n] # "dtor" BY <2>1 DEF Tagged
  <2> QED BY <2>1, <2>2
<1>4. calls \in Seq([op : Ops, obj : Object \cup {"none"}]) BY <1>1 DEF Stacked, CallRec
<1>5. /\ gc.phase \in {"idle", "mark", "scan", "collect", "dtors", "destroy"}
      /\ gc.work \subseteq used /\ gc.black \subseteq used
      /\ {gc.dtors, gc.rerun, gc.did_rerun} \subseteq BOOLEAN
  BY <1>1 DEF GCTyped
<1>6. /\ used \subseteq Object /\ variables \in [Object -> 0 .. MaxVars] /\ prop \subseteq used \X used
      /\ color \in [Object -> {"black", "white", "grey", "purple"}]
      /\ tag \in [Object -> {"none", "root", "garbage", "dtor"}]
      /\ dtor_called \subseteq used /\ free_called \subseteq used /\ nulled \subseteq used
  BY <1>1 DEF HeapTyped
<1> QED BY <1>2, <1>3, <1>4, <1>5, <1>6 DEF GCTypeOK

LEMMA CountsHold ==
  IInv => RefcountsExact
<1> SUFFICES ASSUME IInv, gc.phase \notin {"mark", "scan", "collect"}, NEW n \in used
             PROVE  refcount[n] = variables[n] + Cardinality({e \in prop : e[2] = n}) + Holds(n)
  BY DEF RefcountsExact
<1>1. n \in Object /\ gc.phase # "scan" BY DEF IInv, HeapTyped
<1>2. refcount[n] = variables[n] + Cardinality(In(n)) + HoldsIn(calls, n) BY <1>1, Counts
<1>3. Holds(n) = HoldsIn(calls, n) BY <1>1, Totals DEF IInv
<1> QED BY <1>2, <1>3 DEF In

LEMMA LiveHold ==
  IInv => NothingLiveFreed
<1> SUFFICES ASSUME IInv PROVE NothingLiveFreed OBVIOUS
<1>1. \A n \in Reachable : n \in used /\ n \in Object /\ n \notin free_called /\ n \notin nulled /\ tag[n] # "garbage"
  BY ReachableAlive DEF IInv
<1>2. \A n : n \in Tagged("garbage") => tag[n] = "garbage" BY DEF Tagged
<1> QED BY <1>1, <1>2 DEF NothingLiveFreed

LEMMA RootsHold ==
  IInv => GarbageRooted
<1> SUFFICES ASSUME IInv, calls = <<>> PROVE used \subseteq Reachable \cup Reach(Roots) BY DEF GarbageRooted
<1>1. HeapTyped /\ used \subseteq Reach(Sources) BY DEF IInv, Rooted
<1>2. CallSet(calls) = {} /\ ~Collects(calls) BY DEF CallSet, Collects
<1>3. gc.phase = "idle" BY <1>2 DEF IInv, Phased
<1>4. Garbage = {} /\ Tagged("dtor") = {} /\ nulled = {} BY <1>3 DEF IInv, Phased
<1>5. free_called = {} BY <1>2, <1>4 DEF IInv, Freed
<1> DEFINE X == Reachable \cup Reach(Roots)
<1>6. \A n \in Object : variables[n] > 0 => n \in Reachable BY <1>1, ReachableFacts
<1>7. \A n \in Reachable : \A m \in Visited(n) : m \in Reachable BY <1>1, ReachableFacts
<1>8. Roots \subseteq Reach(Roots) /\ \A n \in Reach(Roots) : \A m \in Visited(n) : m \in Reach(Roots) BY <1>1, ReachFacts
<1>9. ASSUME NEW n \in Sources PROVE n \in X
  <2>1. \/ n \in Object /\ variables[n] > 0
        \/ n \in Object /\ tag[n] # "none"
    BY <1>1, <1>2, <1>5, InSources
  <2>2. ASSUME n \in Object, tag[n] # "none" PROVE n \in Roots
    <3>1. tag[n] \in {"none", "root", "garbage", "dtor"} BY <2>2, <1>1 DEF HeapTyped
    <3>2. tag[n] # "garbage" /\ tag[n] # "dtor" BY <2>2, <1>4 DEF Garbage, Tagged
    <3>3. tag[n] = "root" BY <2>2, <3>1, <3>2
    <3> QED BY <2>2, <3>3 DEF Roots, Tagged
  <2> QED BY <2>1, <2>2, <1>6, <1>8
<1>10. \A n \in X : \A m \in Visited(n) : m \in X BY <1>7, <1>8
<1>11. Reach(Sources) \subseteq X
  <2> HIDE DEF X
  <2> QED BY <1>9, <1>10, ReachWithin
<1> QED BY <1>1, <1>11

-----------------------------------------------------------------------------
(* What a step never does.                                                 *)

CollectsStep == Top("collect") /\ gc'.phase = "idle" /\ ~gc.dtors => used' \subseteq Needed'

\* What the last step of a collection leaves.
LEMMA EndLeaves ==
  ASSUME IInv, IInv', Top("collect"), gc.phase = "collect" \/ (gc.phase = "destroy" /\ ~gc.dtors),
         Garbage \subseteq nulled, calls' = Tail(calls), UNCHANGED <<variables, prop>>,
         used' \subseteq used \ Garbage, free_called' = free_called \ Garbage
  PROVE  used' \subseteq Needed'
<1>1. HeapTyped /\ used \subseteq Garbage \cup Reach(Outside) BY DEF IInv, Quiet
<1>2. HeapTyped' BY DEF IInv
<1>3. /\ calls # <<>> /\ calls[1].op = "collect" /\ calls[1].obj = "none" BY CollectTop
<1>4. CallSet(calls) = CallSet(calls') \cup {calls[1]}
  <2>1. PushFacts(calls, calls[1], Tail(calls)) BY <1>3, PopFact DEF IInv, Stacked
  <2> QED BY <2>1 DEF PushFacts
<1>5. \A n : Succ(n)' = Succ(n) BY DEF Succ
<1>6. PICK B : B = ({n \in Object : variables[n] > 0} \cup {calls[i].obj : i \in DOMAIN calls}
                      \cup UNION {Succ(n) : n \in free_called})' OBVIOUS
<1>7. PICK N : N = Needed' OBVIOUS
<1>8. B \subseteq N /\ \A n \in N : \A m \in Visited(n)' : m \in N
  <2>1. \A S : (S \subseteq Reach(S) /\ \A n \in Reach(S) : \A m \in Visited(n) : m \in Reach(S))' BY <1>2, ReachFactsNext
  <2>2. N = Reach(B)' BY <1>6, <1>7 DEF Needed
  <2> QED BY <2>1, <2>2
<1>9. \A n \in Object : variables[n] > 0 => n \in B BY <1>6
<1>10. \A c \in CallSet(calls') : c.obj \in B BY <1>6 DEF CallSet
<1>11. \A m \in free_called' : \A n : <<m, n>> \in prop => n \in B
  <2>1. \A m, n : n \in Succ(m) <=> <<m, n>> \in prop BY <1>1, InSucc
  <2> QED BY <2>1, <1>5, <1>6
<1> DEFINE X == N \cup {"none"}
<1>12. ASSUME NEW n \in Outside PROVE n \in X
  <2>1. \/ n \in Object /\ variables[n] > 0
        \/ \E c \in CallSet(calls) : c.obj = n
        \/ \E m \in free_called : tag[m] # "garbage" /\ <<m, n>> \in prop
    BY <1>1, InOutside
  <2>2. CASE n \in Object /\ variables[n] > 0 BY <2>2, <1>8, <1>9
  <2>3. CASE \E c \in CallSet(calls) : c.obj = n BY <2>3, <1>3, <1>4, <1>8, <1>10
  <2>4. CASE \E m \in free_called : tag[m] # "garbage" /\ <<m, n>> \in prop
    <3>1. PICK m \in free_called : tag[m] # "garbage" /\ <<m, n>> \in prop BY <2>4
    <3>2. m \notin Garbage BY <3>1, InGarbage
    <3> QED BY <3>1, <3>2, <1>8, <1>11
  <2> QED BY <2>1, <2>2, <2>3, <2>4
<1>13. ASSUME NEW n \in X, NEW m \in Visited(n) PROVE m \in X
  <2>1. n \notin free_called /\ <<n, m>> \in prop BY <1>1, InVisited
  <2>2. n \in used BY <2>1, <1>1, PropTyped
  <2>3. n \in N BY <2>2, <1>1, GCAssumption DEF HeapTyped
  <2>4. n \notin free_called' /\ <<n, m>> \in prop' BY <2>1
  <2>5. m \in Visited(n)' BY <2>4, <1>2, InVisitedNext
  <2> QED BY <2>3, <2>5, <1>8
<1>14. Reach(Outside) \subseteq X
  <2> HIDE DEF X
  <2> QED BY <1>12, <1>13, ReachWithin
<1>15. ASSUME NEW n \in used' PROVE n \in N
  <2>1. n \in used /\ n \notin Garbage BY <1>15
  <2>2. n \in X BY <2>1, <1>1, <1>14
  <2>3. n # "none" BY <2>1, <1>1, GCAssumption DEF HeapTyped
  <2> QED BY <2>2, <2>3
<1> QED BY <1>7, <1>15

LEMMA CollectsStepHolds ==
  ASSUME IInv, IInv', [GCNext]_gcVars
  PROVE  CollectsStep
<1> SUFFICES ASSUME Top("collect"), gc'.phase = "idle", ~gc.dtors
             PROVE  used' \subseteq Needed'
  BY DEF CollectsStep
<1>1. /\ calls # <<>> /\ calls[1].op = "collect" /\ gc.phase # "idle" /\ gc' # gc
      /\ gc \in [phase : {"idle", "mark", "scan", "collect", "dtors", "destroy"},
                 work : SUBSET used, black : SUBSET used, dtors : BOOLEAN, rerun : BOOLEAN,
                 did_rerun : BOOLEAN]
  BY CollectTop DEF IInv, GCTyped
<1>2. ~Running /\ ~Top("dtor") /\ ~Top("del") /\ ~Top("undtor") /\ ~Top("free") /\ ~Top("gcfree")
      /\ ~Top("gcdtor") /\ ~Top("full")
  BY <1>1 DEF Running, Top
<1>3. ~Program BY <1>2 DEF Program, New, Copy, Unset, SetProperty, UnsetProperty, CollectCall, DtorReturns
<1>4. ~Delete BY <1>2 DEF Delete, DelNulled, DelDestructor, DelFree, DelAfter, FreeProperty, FreeDone
<1>5. ~Full /\ ~DestructorCalled /\ ~GarbageDestroyed BY <1>2 DEF Full, DestructorCalled, GarbageDestroyed
<1>6. gcVars' # gcVars BY <1>1 DEF gcVars
<1>7. NothingToFree \/ CollectEnds
  <2>1. Collect BY <1>3, <1>4, <1>5, <1>6 DEF GCNext
  <2>2. ~gc_mark_roots BY <1>1 DEF gc_mark_roots
  <2>3. ~gc_scan_roots BY <1>1 DEF gc_scan_roots, Phase
  <2>4. ~gc_scan BY <1>1 DEF gc_scan, Phase
  <2>5. ~gc_scan_black BY <1>1 DEF gc_scan_black, Phase
  <2>6. ~gc_collect_roots BY <1>1 DEF gc_collect_roots
  <2>7. ~NoDestructors /\ ~MarkDtorGarbage /\ ~DestructorsCalled BY <1>1 DEF NoDestructors, MarkDtorGarbage, DestructorsCalled
  <2>8. ~gc_call_destructors /\ ~DestroyGarbage BY <1>1 DEF gc_call_destructors, DestroyGarbage
  <2> QED BY <2>1, <2>2, <2>3, <2>4, <2>5, <2>6, <2>7, <2>8, <1>5 DEF Collect
<1>8. CASE NothingToFree
  <2>1. gc.phase = "collect" /\ Garbage = {} /\ calls' = Tail(calls)
        /\ UNCHANGED <<used, free_called, variables, prop>>
    BY <1>8 DEF NothingToFree, Phase, Finish, Garbage, objectVars, refVars
  <2> QED BY <2>1, EndLeaves
<1>9. CASE CollectEnds
  <2>1. gc.phase = "destroy" /\ Garbage \subseteq nulled /\ used' = used \ Garbage /\ free_called' = free_called \ Garbage
        /\ UNCHANGED <<variables, prop>>
    BY <1>9 DEF CollectEnds, Phase, Efree, Garbage, refVars
  <2>2. Finish \/ gc'.phase = "mark"
    <3>1. Finish \/ gc' = [Idle EXCEPT !.phase = "mark", !.did_rerun = TRUE] BY <1>9 DEF CollectEnds
    <3> QED BY <3>1 DEF Idle
  <2>3. calls' = Tail(calls) BY <2>2 DEF Finish
  <2> QED BY <2>1, <2>3, EndLeaves
<1> QED BY <1>7, <1>8, <1>9

\* An object is freed when its destructor was called; the innermost call that a
\* step adds is a destructor only if that was not called.
FreesRight == \A n \in HasDtor : n \in free_called' /\ n \notin free_called => n \in dtor_called
CallsRight == Len(calls') > Len(calls) => calls'[1].op # "dtor" \/ calls'[1].obj \notin dtor_called

LEMMA Same ==
  ASSUME UNCHANGED free_called
  PROVE  FreesRight
BY DEF FreesRight

LEMMA CallsSame ==
  ASSUME IInv, calls' = calls \/ (calls # <<>> /\ calls' = Tail(calls))
  PROVE  CallsRight
<1>1. calls \in Seq(CallRec) BY DEF IInv, Stacked
<1>2. Len(calls) \in Nat /\ (calls # <<>> => Len(Tail(calls)) = Len(calls) - 1) BY <1>1
<1>3. ~(Len(calls') > Len(calls)) BY <1>2
<1> QED BY <1>3 DEF CallsRight

LEMMA CallsPushed ==
  ASSUME NEW c, NEW r, r \in Seq(CallRec), calls' = <<c>> \o r, c.op # "dtor" \/ c.obj \notin dtor_called
  PROVE  CallsRight
<1>1. calls'[1] = c OBVIOUS
<1> QED BY <1>1 DEF CallsRight

LEMMA CallFields ==
  \A op, n : Call(op, n).op = op /\ Call(op, n).obj = n
BY DEF Call

\* Two calls at once: the inner one is the first.
LEMMA CallsPushedTwo ==
  ASSUME NEW c \in CallRec, NEW d \in CallRec, NEW r \in Seq(CallRec), calls' = <<c, d>> \o r,
         c.op # "dtor" \/ c.obj \notin dtor_called
  PROVE  CallsRight
<1>1. calls'[1] = c OBVIOUS
<1> QED BY <1>1 DEF CallsRight

LEMMA ReleaseCalls ==
  ASSUME IInv, NEW n \in Object, NEW rest, rest = calls \/ (calls # <<>> /\ rest = Tail(calls)), zend_object_release(n, rest)
  PROVE  CallsRight
<1>1. rest \in Seq(CallRec) BY DEF IInv, Stacked
<1>2. /\ Call("del", n).op = "del" /\ Call("collect", "none").op = "collect"
      /\ Call("full", n) \in CallRec /\ Call("collect", "none") \in CallRec
  BY CallFields DEF Call, CallRec, Ops
<1>3. CASE calls' = <<Call("del", n)>> \o rest BY <1>1, <1>2, <1>3, CallsPushed
<1>4. CASE calls' = rest BY <1>4, CallsSame
<1>5. CASE calls' = <<Call("collect", "none"), Call("full", n)>> \o rest BY <1>1, <1>2, <1>5, CallsPushedTwo
<1> QED BY <1>3, <1>4, <1>5 DEF zend_object_release

LEMMA TopObject ==
  ASSUME IInv, NEW op \in Ops \ {"collect"}, Top(op)
  PROVE  calls # <<>> /\ calls[1].op = op /\ calls[1].obj \in used /\ calls[1].obj \in Object /\ Tail(calls) \in Seq(CallRec)
<1>1. calls # <<>> /\ calls[1].op = op BY DEF Top
<1>2. CallFits(calls[1]) BY <1>1, TopIn DEF IInv
<1>3. used \subseteq Object /\ calls \in Seq(CallRec) BY DEF IInv, HeapTyped, Stacked
<1> QED BY <1>1, <1>2, <1>3 DEF CallFits

LEMMA ProgramRight ==
  ASSUME IInv, Program
  PROVE  FreesRight /\ CallsRight
<1>1. UNCHANGED free_called
  BY DEF Program, New, Copy, Unset, SetProperty, UnsetProperty, CollectCall, DtorReturns, objectVars
<1>2. CallsRight
  <2>1. ASSUME NEW n \in Object, New(n) \/ Copy(n) PROVE CallsRight
    BY <2>1, CallsSame DEF New, Copy
  <2>2. ASSUME NEW n \in Object, Unset(n) PROVE CallsRight
    BY <2>2, ReleaseCalls DEF Unset
  <2>3. ASSUME NEW m \in Object, NEW n \in Object, SetProperty(m, n) PROVE CallsRight
    BY <2>3, CallsSame DEF SetProperty
  <2>4. ASSUME NEW m \in Object, NEW n \in Object, UnsetProperty(m, n) PROVE CallsRight
    BY <2>4, ReleaseCalls DEF UnsetProperty
  <2>5. ASSUME CollectCall PROVE CallsRight
    <3>1. calls' = <<Call("collect", "none")>> \o calls /\ calls \in Seq(CallRec) BY <2>5 DEF CollectCall, IInv, Stacked
    <3>2. Call("collect", "none").op = "collect" BY CallFields
    <3> QED BY <3>1, <3>2, CallsPushed
  <2>6. ASSUME DtorReturns PROVE CallsRight
    <3>1. Top("dtor") /\ zend_object_release(calls[1].obj, Tail(calls)) BY <2>6 DEF DtorReturns
    <3>2. calls # <<>> /\ calls[1].obj \in Object BY <3>1, TopObject DEF Ops
    <3> QED BY <3>1, <3>2, ReleaseCalls
  <2> QED BY <2>1, <2>2, <2>3, <2>4, <2>5, <2>6 DEF Program
<1> QED BY <1>1, <1>2, Same

LEMMA StartFreeRight ==
  ASSUME IInv, Top("del") \/ Top("undtor"), StartFree(calls[1].obj, Tail(calls)),
         calls[1].obj \in HasDtor => calls[1].obj \in dtor_called
  PROVE  FreesRight /\ CallsRight
<1>1. Tail(calls) \in Seq(CallRec) BY TopObject DEF Ops
<1>2. calls' = <<Call("free", calls[1].obj)>> \o Tail(calls) /\ free_called' = free_called \cup {calls[1].obj}
  BY DEF StartFree
<1>3. Call("free", calls[1].obj).op = "free" BY CallFields
<1>4. CallsRight BY <1>1, <1>2, <1>3, CallsPushed
<1>5. FreesRight BY <1>2 DEF FreesRight
<1> QED BY <1>4, <1>5

LEMMA DeleteRight ==
  ASSUME IInv, Delete
  PROVE  FreesRight /\ CallsRight
<1>1. CASE DelNulled
  <2>1. calls # <<>> /\ calls' = Tail(calls) /\ UNCHANGED free_called BY <1>1 DEF DelNulled, Top, objectVars
  <2> QED BY <2>1, Same, CallsSame
<1>2. CASE DelDestructor
  <2>1. PICK n : n = calls[1].obj OBVIOUS
  <2>2. Top("del") /\ n \notin dtor_called /\ calls' = <<Call("dtor", n), Call("undtor", n)>> \o Tail(calls)
        /\ UNCHANGED free_called
    BY <1>2, <2>1 DEF DelDestructor
  <2>3. Tail(calls) \in Seq(CallRec) /\ n \in Object BY <2>1, <2>2, TopObject DEF Ops
  <2>4. Call("dtor", n) \in CallRec /\ Call("undtor", n) \in CallRec /\ Call("dtor", n).obj = n
    BY <2>3, CallFields DEF Call, CallRec, Ops
  <2>5. CallsRight BY <2>2, <2>3, <2>4, CallsPushedTwo
  <2> QED BY <2>2, <2>5, Same
<1>3. CASE DelFree
  BY <1>3, StartFreeRight DEF DelFree
<1>4. CASE DelAfter
  <2>1. Top("undtor") BY <1>4 DEF DelAfter
  <2>2. calls # <<>> /\ calls[1].op = "undtor" /\ CallFits(calls[1]) BY <2>1, TopIn DEF IInv, Top
  <2>3. calls[1].obj \in dtor_called BY <2>2 DEF CallFits
  <2>4. CASE refcount[calls[1].obj] = 1
    <3>1. StartFree(calls[1].obj, Tail(calls)) BY <1>4, <2>4 DEF DelAfter
    <3> QED BY <3>1, <2>1, <2>3, StartFreeRight
  <2>5. CASE refcount[calls[1].obj] # 1
    <3>1. calls' = Tail(calls) /\ UNCHANGED free_called BY <1>4, <2>5 DEF DelAfter
    <3> QED BY <3>1, <2>2, Same, CallsSame
  <2> QED BY <2>4, <2>5
<1>5. CASE FreeProperty
  <2>1. PICK m \in Succ(calls[1].obj) : zend_object_release(m, calls) BY <1>5 DEF FreeProperty
  <2>2. m \in Object
    <3>1. HeapTyped BY DEF IInv
    <3>2. <<calls[1].obj, m>> \in prop BY <2>1, <3>1, InSucc
    <3> QED BY <3>1, <3>2, PropTyped
  <2>3. UNCHANGED free_called BY <1>5 DEF FreeProperty, objectVars
  <2> QED BY <2>1, <2>2, <2>3, ReleaseCalls, Same
<1>6. CASE FreeDone
  <2>1. calls # <<>> /\ calls' = Tail(calls) /\ free_called' \subseteq free_called BY <1>6 DEF FreeDone, Top, Efree
  <2>2. FreesRight BY <2>1 DEF FreesRight
  <2> QED BY <2>1, <2>2, CallsSame
<1> QED BY <1>1, <1>2, <1>3, <1>4, <1>5, <1>6 DEF Delete

LEMMA FullRight ==
  ASSUME IInv, Full
  PROVE  FreesRight /\ CallsRight
<1>1. Top("full") /\ UNCHANGED free_called BY DEF Full, objectVars
<1>2. PICK n : n = calls[1].obj OBVIOUS
<1>3. calls # <<>> /\ Tail(calls) \in Seq(CallRec) BY <1>1, TopObject DEF Ops
<1>4. calls' = <<Call("del", n)>> \o Tail(calls) \/ calls' = Tail(calls) BY <1>2 DEF Full
<1>5. Call("del", n).op = "del" BY CallFields
<1>6. CallsRight BY <1>3, <1>4, <1>5, CallsPushed, CallsSame
<1> QED BY <1>1, <1>6, Same

LEMMA CollectRight ==
  ASSUME IInv, Collect
  PROVE  FreesRight /\ CallsRight
<1>1. CASE gc_mark_roots \/ gc_scan_roots \/ gc_scan \/ gc_scan_black \/ gc_collect_roots \/ NoDestructors \/ DestructorsCalled
  <2>1. UNCHANGED <<calls, free_called>>
    BY <1>1 DEF gc_mark_roots, gc_scan_roots, gc_scan, gc_scan_black, gc_collect_roots, NoDestructors,
                DestructorsCalled, gcFrame, objectVars
  <2> QED BY <2>1, Same, CallsSame
<1>2. CASE MarkDtorGarbage
  <2>1. UNCHANGED <<calls, free_called>> BY <1>2 DEF MarkDtorGarbage
  <2> QED BY <2>1, Same, CallsSame
<1>3. CASE NothingToFree
  <2>1. calls # <<>> /\ calls' = Tail(calls) /\ UNCHANGED free_called
    BY <1>3 DEF NothingToFree, Finish, Phase, Top, objectVars
  <2> QED BY <2>1, Same, CallsSame
<1>4. CASE gc_call_destructors
  <2>1. PICK n \in Tagged("dtor") :
          \/ calls' = calls
          \/ n \notin dtor_called /\ calls' = <<Call("dtor", n), Call("gcdtor", n)>> \o calls
    BY <1>4 DEF gc_call_destructors
  <2>2. UNCHANGED free_called BY <1>4 DEF gc_call_destructors
  <2>3. n \in Object /\ calls \in Seq(CallRec) BY <2>1 DEF Tagged, IInv, Stacked
  <2>4. Call("dtor", n) \in CallRec /\ Call("gcdtor", n) \in CallRec /\ Call("dtor", n).obj = n
    BY <2>3, CallFields DEF Call, CallRec, Ops
  <2>5. CallsRight BY <2>1, <2>3, <2>4, CallsSame, CallsPushedTwo
  <2> QED BY <2>2, <2>5, Same
<1>5. CASE DestructorCalled \/ GarbageDestroyed
  <2>1. calls # <<>> /\ calls' = Tail(calls) /\ UNCHANGED free_called
    BY <1>5 DEF DestructorCalled, GarbageDestroyed, Top, objectVars
  <2> QED BY <2>1, Same, CallsSame
<1>6. CASE DestroyGarbage
  <2>1. PICK n \in Tagged("garbage") : free_called' = free_called \cup {n} /\ calls' = <<Call("gcfree", n)>> \o calls
    BY <1>6 DEF DestroyGarbage
  <2>2. (Garbage \cap HasDtor) \subseteq dtor_called BY <1>6 DEF DestroyGarbage, Phase, IInv, Phased
  <2>3. FreesRight BY <2>1, <2>2 DEF FreesRight, Garbage
  <2>4. calls \in Seq(CallRec) BY DEF IInv, Stacked
  <2>5. Call("gcfree", n).op = "gcfree" BY CallFields
  <2>6. CallsRight BY <2>1, <2>4, <2>5, CallsPushed
  <2> QED BY <2>3, <2>6
<1>7. CASE CollectEnds
  <2>1. free_called' \subseteq free_called BY <1>7 DEF CollectEnds, Efree
  <2>2. calls # <<>> /\ (calls' = calls \/ calls' = Tail(calls)) BY <1>7 DEF CollectEnds, Finish, Phase, Top
  <2>3. FreesRight BY <2>1 DEF FreesRight
  <2> QED BY <2>2, <2>3, CallsSame
<1> QED BY <1>1, <1>2, <1>3, <1>4, <1>5, <1>6, <1>7 DEF Collect

DestructorsStep ==
  \A n \in HasDtor :
    /\ n \in free_called' \ free_called => n \in dtor_called
    /\ Call("dtor", n) = Head(calls' \o <<Call("none", n)>>) /\ Len(calls') > Len(calls)
         => n \notin dtor_called

LEMMA DestructorsStepHolds ==
  ASSUME IInv, IInv', [GCNext]_gcVars
  PROVE  DestructorsStep
<1>1. FreesRight /\ CallsRight
  <2>1. CASE UNCHANGED gcVars
    <3>1. UNCHANGED <<free_called, calls>> BY <2>1 DEF gcVars, objectVars
    <3> QED BY <3>1, Same, CallsSame
  <2> QED BY <2>1, ProgramRight, DeleteRight, FullRight, CollectRight DEF GCNext
<1>2. ASSUME NEW n \in HasDtor, Call("dtor", n) = Head(calls' \o <<Call("none", n)>>), Len(calls') > Len(calls)
      PROVE  n \notin dtor_called
  <2>1. calls' \in Seq(CallRec) /\ calls \in Seq(CallRec) BY DEF IInv, Stacked
  <2>2. Len(calls') \in Nat /\ Len(calls) \in Nat /\ Len(calls') > 0 BY <2>1, <1>2
  <2>3. PICK s \in Seq(CallRec) : s = calls' BY <2>1
  <2>4. PICK x : x = Call("none", n) OBVIOUS
  <2>5. Head(s \o <<x>>) = s[1] BY <2>2, <2>3
  <2>6. calls'[1] = Call("dtor", n) BY <1>2, <2>3, <2>4, <2>5
  <2>7. calls'[1].op = "dtor" /\ calls'[1].obj = n BY <2>6, CallFields
  <2> QED BY <2>7, <1>1, <1>2 DEF CallsRight
<1> QED BY <1>1, <1>2 DEF FreesRight, DestructorsStep

-----------------------------------------------------------------------------
(* The theorems.                                                           *)

\* The heap, the buffer, the calls and the collector hold what they may hold:
\* no counter is negative, not while the collector has taken references out of
\* it either, and between collections what is buffered is purple and the rest
\* black (GC_TYPE_INFO, gc_possible_root, zend_gc_collect_cycles).
THEOREM GCTypeCorrect == GCSpec => []GCTypeOK
BY GCInvariant, TypesHold, PTL

\* Outside of the passes of the collector every counter is the number of
\* references: GC_ADDREF and GC_DELREF of the program, of deletions, of the
\* destruction of garbage and of calls to destructors balance, and the passes
\* put back what they took (gc_mark_grey, gc_scan_black, gc_collect_white).
THEOREM RefcountsStayExact == GCSpec => []RefcountsExact
BY GCInvariant, CountsHold, PTL

\* No object that the program, or a destructor that runs, can reach is freed or
\* about to be: neither by its counter nor by the collector, whose garbage
\* stays out of reach while destructors change the heap
\* (gc_remove_nested_data_from_buffer, zend_gc_collect_cycles).
THEOREM LiveIsNotFreed == GCSpec => []NothingLiveFreed
BY GCInvariant, LiveHold, PTL

\* When no call is under way each object the program has lost is below one in
\* the root buffer, so that the next collection comes to it
\* (gc_possible_root, gc_collect_roots, gc_call_destructors).
THEOREM GarbageStaysRooted == GCSpec => []GarbageRooted
BY GCInvariant, RootsHold, PTL

\* A collection without destructors leaves no garbage, and an object is freed
\* after its destructor was called, and that once (zend_gc_collect_cycles,
\* zend_objects_store_del).
THEOREM CollectsAndDestroysRight == GCSpec => DestroyedRight
<1>1. IInv /\ IInv' /\ [GCNext]_gcVars => [CollectsStep]_gcVars BY CollectsStepHolds
<1>2. IInv /\ IInv' /\ [GCNext]_gcVars => [DestructorsStep]_gcVars BY DestructorsStepHolds
<1>3. GCSpec => [][CollectsStep]_gcVars BY <1>1, GCInvariant, PTL DEF GCSpec
<1>4. GCSpec => [][DestructorsStep]_gcVars BY <1>2, GCInvariant, PTL DEF GCSpec
<1> QED BY <1>3, <1>4 DEF DestroyedRight, CollectsAll, DestructorsOnce, CollectsStep, DestructorsStep
=============================================================================
