----------------------------- MODULE Induction -----------------------------
(***************************************************************************)
(* Induction on numbers and on sequences, recursion and folds, in a form   *)
(* in which what is to be proved is a set and the step of a recursion is a *)
(* function: so that first-order provers can use them.                     *)
(***************************************************************************)
EXTENDS Integers, FiniteSetsExt, FiniteSetTheorems, WellFoundedInduction, SequenceTheorems, TLAPS

(* A set of numbers has a least one, since among the intervals from 0 to    *)
(* its elements there is a smallest.                                        *)
LEMMA LeastNat ==
  ASSUME NEW T \in SUBSET Nat, T # {}
  PROVE  \E m \in T : \A k \in T : m <= k
<1> DEFINE F == {0 .. k : k \in T}
<1>1. F \subseteq FiniteSubsetsOf(Nat) /\ F # {}
  <2>1. \A k \in Nat : IsFiniteSet(0 .. k) /\ 0 .. k \in SUBSET Nat
    BY FS_Interval
  <2> QED  BY <2>1 DEF FiniteSubsetsOf
<1>2. PICK x \in F : \A y \in F : ~ (<<y, x>> \in StrictSubsetOrdering(Nat))
  <2> HIDE DEF F
  <2> QED  BY <1>1, WFMin, FS_StrictSubsetOrderingWellFounded
<1>3. PICK m \in T : x = 0 .. m
  OBVIOUS
<1>4. ASSUME NEW k \in T, k < m PROVE FALSE
  <2>1. 0 .. k \subseteq 0 .. m /\ 0 .. k # 0 .. m
    BY <1>4
  <2>2. <<0 .. k, 0 .. m>> \in StrictSubsetOrdering(Nat)
    BY <2>1 DEF StrictSubsetOrdering
  <2> QED  BY <1>2, <1>3, <2>2
<1> QED  BY <1>4

LEMMA InductionOnNat ==
  ASSUME NEW T, 0 \in T, \A n \in Nat : n \in T => n + 1 \in T
  PROVE  Nat \subseteq T
<1> SUFFICES ASSUME Nat \ T # {} PROVE FALSE
  OBVIOUS
<1>1. PICK m \in Nat \ T : \A k \in Nat \ T : m <= k
  BY LeastNat
<1>2. m # 0 /\ m - 1 \in Nat
  BY <1>1
<1> QED  BY <1>1, <1>2

(* The body of a recursion over D with values in R calls the function only  *)
(* on smaller arguments: functions that agree there make no difference.     *)
CallsSmaller(D, R, size, body) ==
  \A f, g \in [D -> R], d \in D :
    (\A e \in D : size[e] < size[d] => f[e] = g[e]) => body[<<f, d>>] = body[<<g, d>>]

Recursion(D, R, size, body) ==
  /\ R # {}
  /\ size \in [D -> Nat]
  /\ body \in [[D -> R] \X D -> R]
  /\ CallsSmaller(D, R, size, body)

(* There is a function that a recursion defines.                            *)
LEMMA RecursionByMeasure ==
  ASSUME NEW D, NEW R, NEW size, NEW body,
         Recursion(D, R, size, body)
  PROVE  \E f \in [D -> R] : \A d \in D : f[d] = body[<<f, d>>]
<1> USE DEF Recursion, CallsSmaller
<1> DEFINE Good(n) == {f \in [D -> R] : \A d \in D : size[d] < n => f[d] = body[<<f, d>>]}
<1>1. \A f \in [D -> R], d \in D : body[<<f, d>>] \in R
  OBVIOUS
<1>2. \A n \in Nat : Good(n) # {}
  <2> DEFINE T == {n \in Nat : Good(n) # {}}
  <2>1. 0 \in T
    <3>1. PICK r \in R : TRUE
      OBVIOUS
    <3>2. [d \in D |-> r] \in Good(0)
      OBVIOUS
    <3> QED  BY <3>2
  <2>2. ASSUME NEW n \in T PROVE n + 1 \in T
    <3>1. PICK f \in Good(n) : TRUE
      OBVIOUS
    <3> DEFINE g == [d \in D |-> body[<<f, d>>]]
    <3>2. g \in [D -> R]
      BY <1>1, <3>1
    <3>3. \A e \in D : size[e] < n => g[e] = f[e]
      BY <3>1
    <3>4. ASSUME NEW d \in D, size[d] < n + 1 PROVE g[d] = body[<<g, d>>]
      <4>1. \A e \in D : size[e] < size[d] => f[e] = g[e]
        BY <3>3, <3>4
      <4>2. body[<<f, d>>] = body[<<g, d>>]
        <5> HIDE DEF g
        <5> QED  BY <3>1, <3>2, <4>1
      <4> QED  BY <4>2
    <3>5. g \in Good(n + 1)
      <4> HIDE DEF g
      <4> QED  BY <3>2, <3>4
    <3>6. n + 1 \in Nat
      OBVIOUS
    <3> HIDE DEF g, Good
    <3> QED  BY <3>5, <3>6
  <2> HIDE DEF T
  <2>3. Nat \subseteq T
    BY <2>1, <2>2, InductionOnNat
  <2> QED  BY <2>3 DEF T
<1>3. ASSUME NEW n \in Nat, NEW f \in Good(n), NEW k \in Nat, NEW g \in Good(k)
      PROVE  \A d \in D : size[d] < n /\ size[d] < k => f[d] = g[d]
  <2> DEFINE T == {size[d] : d \in {x \in D : size[x] < n /\ size[x] < k /\ f[x] # g[x]}}
  <2> SUFFICES ASSUME T # {} PROVE FALSE
    OBVIOUS
  <2>1. T \in SUBSET Nat
    OBVIOUS
  <2>2. PICK m \in T : \A j \in T : m <= j
    <3> HIDE DEF T
    <3> QED  BY <2>1, LeastNat
  <2>3. PICK d \in D : size[d] = m /\ size[d] < n /\ size[d] < k /\ f[d] # g[d]
    OBVIOUS
  <2>4. ASSUME NEW e \in D, size[e] < size[d], f[e] # g[e] PROVE FALSE
    <3>1. size[e] \in Nat /\ size[d] \in Nat
      OBVIOUS
    <3>2. size[e] < n /\ size[e] < k
      BY <2>3, <2>4, <3>1
    <3>3. size[e] \in T
      BY <2>4, <3>2
    <3> HIDE DEF T
    <3> QED  BY <2>2, <2>3, <2>4, <3>1, <3>3
  <2>5. \A e \in D : size[e] < size[d] => f[e] = g[e]
    BY <2>4
  <2>6. body[<<f, d>>] = body[<<g, d>>]
    <3> HIDE DEF T
    <3> QED  BY <2>5
  <2> QED  BY <2>3, <2>6
<1> DEFINE h(d) == CHOOSE f : f \in Good(size[d] + 1)
           F == [d \in D |-> h(d)[d]]
<1>4. ASSUME NEW d \in D PROVE h(d) \in Good(size[d] + 1)
  <2>1. size[d] + 1 \in Nat
    OBVIOUS
  <2> HIDE DEF Good
  <2>2. Good(size[d] + 1) # {}
    BY <1>2, <2>1
  <2> QED  BY <2>2
<1> HIDE DEF h
<1>5. F \in [D -> R]
  BY <1>4
<1>6. ASSUME NEW d \in D PROVE F[d] = body[<<F, d>>]
  <2>1. h(d) \in Good(size[d] + 1) /\ h(d) \in [D -> R] /\ h(d)[d] = body[<<h(d), d>>]
    <3>1. size[d] < size[d] + 1
      OBVIOUS
    <3> QED  BY <1>4, <3>1
  <2>2. ASSUME NEW e \in D, size[e] < size[d] PROVE F[e] = h(d)[e]
    <3>1. h(e) \in Good(size[e] + 1)
      BY <1>4
    <3>2. size[e] + 1 \in Nat /\ size[d] + 1 \in Nat /\ size[e] < size[d] + 1
          /\ size[e] < size[e] + 1
      BY <2>2
    <3> HIDE DEF Good
    <3>3. h(e)[e] = h(d)[e]
      BY <1>3, <2>1, <3>1, <3>2
    <3> QED  BY <3>3
  <2>3. body[<<h(d), d>>] = body[<<F, d>>]
    <3> HIDE DEF F
    <3> QED  BY <1>5, <2>1, <2>2
  <2> QED  BY <2>1, <2>3
<1> HIDE DEF F
<1> QED  BY <1>5, <1>6

-----------------------------------------------------------------------------
(* The greatest of some numbers is one of them.                             *)
LEMMA MaxOfNumbers == ASSUME NEW n \in Nat, NEW t \in SUBSET (1..n), t # {}
  PROVE Max(t) \in t /\ \A x \in t : x <= Max(t)
<1> DEFINE T == {n - x : x \in t}
<1>0. T \in SUBSET Nat /\ T # {}
  <2>1. \A x \in t : n - x \in Nat
    OBVIOUS
  <2>2. PICK x \in t : TRUE
    OBVIOUS
  <2>3. n - x \in T
    OBVIOUS
  <2> QED BY <2>1, <2>3
<1>1. PICK m \in T : \A k \in T : m <= k
  <2> HIDE DEF T
  <2> QED BY <1>0, LeastNat
<1>2. n - m \in t /\ \A x \in t : n - m >= x
  BY <1>1
<1>3. PICK x \in t : \A y \in t : x >= y
  BY <1>2
<1> QED BY <1>3 DEF Max

(* An interval less its greatest number is the interval before it.          *)
LEMMA MaxOfInterval == ASSUME NEW n \in Nat \ {0}
  PROVE /\ Max(1 .. n) = n
        /\ (1 .. n) \ {Max(1 .. n)} = 1 .. n - 1
<1>1. 1..n \in SUBSET (1..n) /\ 1..n # {} /\ n \in 1..n
  OBVIOUS
<1>2. Max(1 .. n) \in 1..n /\ n <= Max(1 .. n)
  BY <1>1, MaxOfNumbers
<1>3. Max(1 .. n) = n
  BY <1>2
<1> QED BY <1>3

(* FoldLeft goes through the sets of indices of a sequence, the greatest    *)
(* first; its steps are a function on values of S and elements of E.        *)
FoldOver(S, E, base, op, s) ==
  /\ base \in S
  /\ op \in [S \X E -> S]
  /\ s \in Seq(E)

FoldTable(f, S, base, op, s) ==
  /\ f \in [SUBSET DOMAIN s -> S]
  /\ \A t \in SUBSET DOMAIN s :
       f[t] = IF t = {} THEN base ELSE op[<<f[t \ {Max(t)}], s[Max(t)]>>]

LEMMA FoldExists ==
  ASSUME NEW S, NEW E, NEW base, NEW op, NEW s,
         FoldOver(S, E, base, op, s)
  PROVE  \E f : FoldTable(f, S, base, op, s)
<1> USE DEF FoldOver
<1> DEFINE D == SUBSET DOMAIN s
           size == [t \in D |-> Cardinality(t)]
           Body(f, t) == IF t = {} THEN base ELSE op[<<f[t \ {Max(t)}], s[Max(t)]>>]
           body == [p \in [D -> S] \X D |-> Body(p[1], p[2])]
<1>0. DOMAIN s = 1 .. Len(s) /\ Len(s) \in Nat /\ \A i \in DOMAIN s : s[i] \in E
  OBVIOUS
<1>1. ASSUME NEW t \in D PROVE IsFiniteSet(t) /\ Cardinality(t) \in Nat
  <2>1. IsFiniteSet(t)
    <3>1. IsFiniteSet(1 .. Len(s)) /\ t \subseteq 1 .. Len(s)
      BY <1>0, FS_Interval
    <3> QED BY <3>1, FS_Subset
  <2> QED BY <2>1, FS_CardinalityType
<1>2. ASSUME NEW t \in D, t # {}
      PROVE  /\ Max(t) \in t /\ t \ {Max(t)} \in D
             /\ Cardinality(t \ {Max(t)}) < Cardinality(t)
  <2>1. Max(t) \in t
    BY <1>0, <1>2, MaxOfNumbers
  <2>2. t \ {Max(t)} \in D
    OBVIOUS
  <2>3. Cardinality(t \ {Max(t)}) = Cardinality(t) - 1
    BY <1>1, <2>1, FS_RemoveElement
  <2> QED BY <1>1, <2>1, <2>2, <2>3
<1>3. size \in [D -> Nat]
  <2> HIDE DEF D
  <2> QED BY <1>1
<1>4. ASSUME NEW f \in [D -> S], NEW t \in D PROVE Body(f, t) \in S
  <2>1. CASE t = {}
    BY <2>1
  <2>2. CASE t # {}
    <3>1. f[t \ {Max(t)}] \in S
      <4> HIDE DEF D
      <4> QED BY <1>2, <2>2
    <3>2. s[Max(t)] \in E
      BY <1>0, <1>2, <2>2
    <3> QED BY <2>2, <3>1, <3>2
  <2> QED BY <2>1, <2>2
<1>5. body \in [[D -> S] \X D -> S]
  <2> HIDE DEF D, Body
  <2> QED BY <1>4
<1>6. \A f \in [D -> S], t \in D : body[<<f, t>>] = Body(f, t)
  <2> HIDE DEF D, Body
  <2> QED OBVIOUS
<1>7. ASSUME NEW f \in [D -> S], NEW g \in [D -> S], NEW t \in D,
             \A e \in D : size[e] < size[t] => f[e] = g[e]
      PROVE  body[<<f, t>>] = body[<<g, t>>]
  <2>1. Body(f, t) = Body(g, t)
    <3>1. CASE t = {}
      BY <3>1
    <3>2. CASE t # {}
      <4>1. f[t \ {Max(t)}] = g[t \ {Max(t)}]
        <5> HIDE DEF D
        <5> QED BY <1>2, <1>7, <3>2
      <4> QED BY <3>2, <4>1
    <3> QED BY <3>1, <3>2
  <2> HIDE DEF body, Body, D
  <2> QED BY <1>6, <2>1
<1>8. PICK f \in [D -> S] : \A t \in D : f[t] = body[<<f, t>>]
  <2> HIDE DEF D, size, body
  <2>1. S # {}
    OBVIOUS
  <2>2. CallsSmaller(D, S, size, body)
    BY <1>7 DEF CallsSmaller
  <2>3. Recursion(D, S, size, body)
    BY <1>3, <1>5, <2>1, <2>2 DEF Recursion
  <2> QED BY <2>3, RecursionByMeasure
<1>9. \A t \in D : f[t] = Body(f, t)
  <2> HIDE DEF D, Body, body
  <2> QED  BY <1>6, <1>8
<1> HIDE DEF body, FoldOver
<1> QED  BY <1>9 DEF FoldTable

(* What the base is and every step keeps, the result is.                    *)
LEMMA FoldKeeps ==
  ASSUME NEW S, NEW E, NEW base, NEW op, NEW s, NEW f,
         FoldOver(S, E, base, op, s),
         f[{}] = base,
         \A n \in 1 .. Len(s) :
           f[1 .. n - 1] \in S => f[1 .. n] = op[<<f[1 .. n - 1], s[n]>>]
  PROVE  f[DOMAIN s] \in S
<1> USE DEF FoldOver
<1> DEFINE T == {n \in Nat : n <= Len(s) => f[1 .. n] \in S}
<1>1. 0 \in T
  <2>1. 1 .. 0 = {}
    OBVIOUS
  <2> QED  BY <2>1
<1>2. ASSUME NEW n \in Nat, n \in T PROVE n + 1 \in T
  <2> SUFFICES ASSUME n + 1 <= Len(s) PROVE f[1 .. n + 1] \in S
    OBVIOUS
  <2>1. n + 1 \in 1 .. Len(s) /\ (n + 1) - 1 = n /\ s[n + 1] \in E
    OBVIOUS
  <2>2. f[1 .. n] \in S
    BY <1>2, <2>1
  <2> QED  BY <2>1, <2>2
<1>3. Len(s) \in T
  <2> HIDE DEF T
  <2> QED  BY <1>1, <1>2, InductionOnNat
<1> QED  BY <1>3

-----------------------------------------------------------------------------
(* Sequences, by names that the provers take as they are: the lemmas below  *)
(* are all that the proofs about streams know of them.                      *)
Strings(S) == Seq(S)
Cat(s, t) == s \o t
Size(s) == Len(s)
One(a) == <<a>>
Take(s, n) == SubSeq(s, 1, n)
Drop(s, n) == SubSeq(s, n + 1, Len(s))
None == << >>

LEMMA SizeIsNat ==
  ASSUME NEW S, NEW s \in Strings(S)
  PROVE  Size(s) \in Nat
BY DEF Strings, Size

LEMMA CatType ==
  ASSUME NEW S, NEW s \in Strings(S), NEW t \in Strings(S)
  PROVE  Cat(s, t) \in Strings(S) /\ Size(Cat(s, t)) = Size(s) + Size(t)
BY DEF Strings, Size, Cat

LEMMA ElementType ==
  ASSUME NEW S, NEW s \in Strings(S), NEW i \in Nat, 1 <= i, i <= Size(s)
  PROVE  s[i] \in S
BY DEF Strings, Size

(* An element of the first of two sequences is where it was.                *)
LEMMA ElementInFront ==
  ASSUME NEW S, NEW s \in Strings(S), NEW t \in Strings(S),
         NEW i \in Nat, 1 <= i, i <= Size(s)
  PROVE  Cat(s, t)[i] = s[i]
BY DEF Strings, Size, Cat

(* The element that is added is the last.                                   *)
LEMMA ElementAfter ==
  ASSUME NEW S, NEW s \in Strings(S), NEW a \in S
  PROVE  Cat(s, One(a))[Size(s) + 1] = a
BY DEF Strings, Size, Cat, One

LEMMA NoneType ==
  ASSUME NEW S
  PROVE  None \in Strings(S) /\ Size(None) = 0
BY DEF Strings, Size, None

LEMMA NoneSize ==
  ASSUME NEW S, NEW s \in Strings(S), Size(s) = 0
  PROVE  s = None
BY DEF Strings, Size, None

LEMMA OneType ==
  ASSUME NEW S, NEW a \in S
  PROVE  One(a) \in Strings(S) /\ Size(One(a)) = 1
BY DEF Strings, Size, One

(* What is in a smaller set is in a larger one.                             *)
LEMMA SubStrings ==
  ASSUME NEW S, NEW T, S \subseteq T, NEW s \in Strings(S)
  PROVE  s \in Strings(T)
BY DEF Strings

LEMMA CatNone ==
  ASSUME NEW S, NEW s \in Strings(S)
  PROVE  Cat(s, None) = s /\ Cat(None, s) = s
BY ConcatEmptySeq DEF Strings, Cat, None

(* It does not matter in which order sequences are put together.            *)
LEMMA CatAssociates ==
  ASSUME NEW S, NEW s \in Strings(S), NEW t \in Strings(S), NEW u \in Strings(S)
  PROVE  Cat(Cat(s, t), u) = Cat(s, Cat(t, u))
BY ConcatAssociative DEF Strings, Cat

(* The same elements, the same sequence.                                    *)
LEMMA SameElements ==
  ASSUME NEW S, NEW s \in Seq(S), NEW t \in Seq(S), Len(s) = Len(t),
         \A i \in 1 .. Len(s) : s[i] = t[i]
  PROVE  s = t
BY SeqEqual

LEMMA TakeType ==
  ASSUME NEW S, NEW s \in Strings(S), NEW n \in Nat, n <= Size(s)
  PROVE  Take(s, n) \in Strings(S) /\ Size(Take(s, n)) = n
BY DEF Strings, Size, Take

LEMMA DropType ==
  ASSUME NEW S, NEW s \in Strings(S), NEW n \in Nat, n <= Size(s)
  PROVE  Drop(s, n) \in Strings(S) /\ Size(Drop(s, n)) = Size(s) - n
BY DEF Strings, Size, Drop

(* Two sequences that were put together are cut apart again.                *)
LEMMA TakeCat ==
  ASSUME NEW S, NEW s \in Strings(S), NEW t \in Strings(S)
  PROVE  Take(Cat(s, t), Size(s)) = s
<1>1. s \in Seq(S) /\ t \in Seq(S) /\ s \o t \in Seq(S) /\ Len(s \o t) = Len(s) + Len(t)
  BY DEF Strings
<1>2. /\ SubSeq(s \o t, 1, Len(s)) \in Seq(S)
      /\ Len(SubSeq(s \o t, 1, Len(s))) = Len(s)
  BY <1>1
<1>3. ASSUME NEW i \in 1 .. Len(s)
      PROVE  SubSeq(s \o t, 1, Len(s))[i] = s[i]
  BY <1>1
<1>4. SubSeq(s \o t, 1, Len(s)) = s
  BY <1>1, <1>2, <1>3, SameElements
<1> QED
  BY <1>4 DEF Take, Cat, Size

LEMMA DropCat ==
  ASSUME NEW S, NEW s \in Strings(S), NEW t \in Strings(S)
  PROVE  Drop(Cat(s, t), Size(s)) = t
<1>1. s \in Seq(S) /\ t \in Seq(S) /\ s \o t \in Seq(S) /\ Len(s \o t) = Len(s) + Len(t)
  BY DEF Strings
<1> DEFINE u == SubSeq(s \o t, Len(s) + 1, Len(s \o t))
<1>2. u \in Seq(S) /\ Len(u) = Len(t)
  BY <1>1
<1>3. ASSUME NEW i \in 1 .. Len(t)
      PROVE  u[i] = t[i]
  BY <1>1
<1> HIDE DEF u
<1>4. u = t
  BY <1>1, <1>2, <1>3, SameElements
<1> QED
  BY <1>4 DEF Drop, Cat, Size, u

(* A sequence is its first n elements and what follows them.                *)
LEMMA TakeAndDrop ==
  ASSUME NEW S, NEW s \in Strings(S), NEW n \in Nat, n <= Size(s)
  PROVE  s = Cat(Take(s, n), Drop(s, n))
<1>1. s \in Seq(S) /\ n <= Len(s)
  BY DEF Strings, Size
<1> DEFINE p == SubSeq(s, 1, n)
           a == SubSeq(s, n + 1, Len(s))
<1>2. p \in Seq(S) /\ Len(p) = n /\ a \in Seq(S) /\ Len(a) = Len(s) - n
  BY <1>1
<1>3. \A i \in 1 .. n : p[i] = s[i]
  BY <1>1
<1>4. \A i \in 1 .. Len(s) - n : a[i] = s[n + i]
  BY <1>1
<1> HIDE DEF p, a
<1>5. p \o a \in Seq(S) /\ Len(p \o a) = Len(s)
  BY <1>1, <1>2
<1>6. ASSUME NEW i \in 1 .. Len(s)
      PROVE  (p \o a)[i] = s[i]
  <2>1. CASE i <= n
    BY <1>1, <1>2, <1>3, <2>1
  <2>2. CASE ~(i <= n)
    <3>1. (p \o a)[i] = a[i - n]
      BY <1>1, <1>2, <2>2
    <3>2. i - n \in 1 .. Len(s) - n /\ n + (i - n) = i
      BY <1>1, <2>2
    <3> QED
      BY <3>1, <3>2, <1>4
  <2> QED
    BY <2>1, <2>2
<1>7. p \o a = s
  BY <1>1, <1>5, <1>6, SameElements
<1> QED
  BY <1>7 DEF Take, Drop, Cat, p, a

(* Sequences that are cut at the same place have the same parts.            *)
LEMMA SameParts ==
  ASSUME NEW S, NEW s \in Strings(S), NEW t \in Strings(S), NEW u \in Strings(S),
         NEW v \in Strings(S), Cat(s, t) = Cat(u, v), Size(s) = Size(u)
  PROVE  s = u /\ t = v
BY TakeCat, DropCat

(* Of two ways to cut a sequence, the one that cuts later takes more.       *)
LEMMA CutLater ==
  ASSUME NEW S, NEW s \in Strings(S), NEW t \in Strings(S), NEW u \in Strings(S),
         NEW v \in Strings(S), Cat(s, t) = Cat(u, v), Size(s) <= Size(u)
  PROVE  \E w \in Strings(S) : u = Cat(s, w) /\ t = Cat(w, v)
<1>1. Size(s) \in Nat
  BY SizeIsNat
<1>2. PICK a \in Strings(S), w \in Strings(S) : u = Cat(a, w) /\ Size(a) = Size(s)
  BY <1>1, TakeType, DropType, TakeAndDrop
<1>3. Cat(s, t) = Cat(a, Cat(w, v)) /\ Cat(w, v) \in Strings(S)
  BY <1>2, CatAssociates, CatType
<1>4. a = s /\ t = Cat(w, v)
  BY <1>2, <1>3, SameParts
<1> QED
  BY <1>2, <1>4

Sizes(S) == [s \in Strings(S) |-> Size(s)]

(* Nothing follows all there is.                                            *)
LEMMA DropAll ==
  ASSUME NEW S, NEW s \in Strings(S), NEW n \in Nat, Size(s) <= n
  PROVE  Drop(s, n) = None
<1>1. s \in Seq(S) /\ Len(s) <= n
  BY DEF Strings, Size
<1>2. SubSeq(s, n + 1, Len(s)) = <<>>
  BY <1>1
<1> QED
  BY <1>2 DEF Drop, None

LEMMA DropNothing ==
  ASSUME NEW S, NEW s \in Strings(S)
  PROVE  Drop(s, 0) = s
<1>1. Cat(None, s) = s /\ Size(None) = 0 /\ None \in Strings(S)
  BY CatNone, NoneType
<1> QED
  BY <1>1, DropCat

(* What follows the first n elements, and one more.                         *)
LEMMA DropOneMore ==
  ASSUME NEW S, NEW s \in Strings(S), NEW n \in Nat, n <= Size(s),
         NEW a \in S, NEW t \in Strings(S), Drop(s, n) = Cat(One(a), t)
  PROVE  /\ n + 1 <= Size(s) /\ s[n + 1] = a /\ Drop(s, n + 1) = t
<1> DEFINE p == Cat(Take(s, n), One(a))
<1>1. Take(s, n) \in Strings(S) /\ Size(Take(s, n)) = n
  BY TakeType
<1>2. One(a) \in Strings(S) /\ Size(One(a)) = 1
  BY OneType
<1>3. p \in Strings(S) /\ Size(p) = n + 1
  BY <1>1, <1>2, CatType
<1>4. s = Cat(p, t)
  BY <1>1, <1>2, TakeAndDrop, CatAssociates
<1>5. p[n + 1] = a
  BY <1>1, ElementAfter
<1> HIDE DEF p
<1>6. Drop(s, n + 1) = t
  BY <1>3, <1>4, DropCat
<1>7. s[n + 1] = a
  <2>1. n + 1 \in Nat /\ 1 <= n + 1 /\ n + 1 <= Size(p)
    BY <1>3
  <2> QED
    BY <1>3, <1>4, <1>5, <2>1, ElementInFront
<1>8. Size(s) = n + 1 + Size(t) /\ Size(t) \in Nat
  BY <1>3, <1>4, CatType, SizeIsNat
<1> QED
  BY <1>6, <1>7, <1>8

(* A longer sequence is longer behind, too.                                 *)
LEMMA DropOfCat ==
  ASSUME NEW S, NEW s \in Strings(S), NEW t \in Strings(S), NEW n \in Nat, n <= Size(s)
  PROVE  Drop(Cat(s, t), n) = Cat(Drop(s, n), t)
<1>1. Take(s, n) \in Strings(S) /\ Size(Take(s, n)) = n /\ Drop(s, n) \in Strings(S)
  BY TakeType, DropType
<1>2. Cat(s, t) = Cat(Take(s, n), Cat(Drop(s, n), t)) /\ Cat(Drop(s, n), t) \in Strings(S)
  BY <1>1, TakeAndDrop, CatAssociates, CatType
<1> QED
  BY <1>1, <1>2, DropCat


(* A sequence is the beginning of itself with one more element.             *)
LEMMA AppendIsLonger ==
  ASSUME NEW S, NEW s \in Strings(S), NEW a
  PROVE  Len(Append(s, a)) = Len(s) + 1 /\ SubSeq(Append(s, a), 1, Len(s)) = s
<1> DEFINE T == S \cup {a}
<1> HIDE DEF T
<1>1. s \in Strings(T) /\ One(a) \in Strings(T) /\ Size(One(a)) = 1
  BY SubStrings, OneType DEF T
<1>2. Append(s, a) = Cat(s, One(a))
  <2>1. s \in Seq(S)
    BY DEF Strings
  <2> QED
    BY <2>1 DEF Cat, One
<1>3. Take(Cat(s, One(a)), Size(s)) = s /\ Size(Cat(s, One(a))) = Size(s) + 1
  BY <1>1, TakeCat, CatType
<1> QED
  BY <1>2, <1>3 DEF Take, Size


(* A sequence that is not empty is its first element and the rest.          *)
LEMMA FirstOf ==
  ASSUME NEW S, NEW s \in Strings(S), s # None
  PROVE  \E a \in S : \E t \in Strings(S) : s = Cat(One(a), t) /\ Size(s) = Size(t) + 1
<1>1. s \in Seq(S) /\ s # <<>>
  BY DEF Strings, None
<1>2. s[1] \in S /\ Len(s) >= 1 /\ Len(s) \in Nat
  BY <1>1
<1>3. 1 \in Nat /\ 1 <= Size(s)
  BY <1>2 DEF Size
<1>4. Take(s, 1) = One(s[1])
  <2>1. SubSeq(s, 1, 1) \in Seq(S) /\ Len(SubSeq(s, 1, 1)) = 1 /\ SubSeq(s, 1, 1)[1] = s[1]
    BY <1>1, <1>2
  <2>2. <<s[1]>> \in Seq(S) /\ Len(<<s[1]>>) = 1 /\ <<s[1]>>[1] = s[1]
    BY <1>2
  <2>3. \A i \in 1 .. 1 : SubSeq(s, 1, 1)[i] = <<s[1]>>[i]
    BY <2>1, <2>2
  <2>4. SubSeq(s, 1, 1) = <<s[1]>>
    BY <2>1, <2>2, <2>3, SameElements
  <2> QED
    BY <2>4 DEF Take, One
<1>5. s = Cat(One(s[1]), Drop(s, 1))
  BY <1>3, <1>4, TakeAndDrop
<1>6. Drop(s, 1) \in Strings(S) /\ Size(Drop(s, 1)) = Size(s) - 1
  BY <1>3, DropType
<1>7. Size(s) \in Nat
  BY SizeIsNat
<1>8. Size(s) = Size(Drop(s, 1)) + 1
  BY <1>6, <1>7
<1> QED
  BY <1>2, <1>5, <1>6, <1>8

(* That element and that rest are found again.                              *)
LEMMA FirstIs ==
  ASSUME NEW S, NEW a \in S, NEW t \in Strings(S)
  PROVE  /\ Cat(One(a), t)[1] = a
         /\ Drop(Cat(One(a), t), 1) = t
         /\ Cat(One(a), t) # None
         /\ Size(Cat(One(a), t)) = Size(t) + 1
<1>1. One(a) \in Strings(S) /\ Size(One(a)) = 1
  BY OneType
<1>2. Drop(Cat(One(a), t), 1) = t
  BY <1>1, DropCat
<1>3. Size(t) \in Nat /\ Size(Cat(One(a), t)) = 1 + Size(t)
  BY <1>1, SizeIsNat, CatType
<1>4. Cat(One(a), t) # None
  BY <1>3, NoneType
<1>5. Cat(One(a), t)[1] = a
  <2>1. t \in Seq(S)
    BY DEF Strings
  <2> QED
    BY <2>1 DEF Cat, One
<1>6. Size(Cat(One(a), t)) = Size(t) + 1
  BY <1>3
<1> QED
  BY <1>2, <1>4, <1>5, <1>6

(* What a property of sequences is shown by: the empty one has it, and one  *)
(* that is longer by an element has it when the rest has.                   *)
LEMMA SequenceInduction ==
  ASSUME NEW S, NEW T, None \in T,
         \A a \in S : \A s \in Strings(S) : s \in T => Cat(One(a), s) \in T
  PROVE  Strings(S) \subseteq T
<1> DEFINE N == {n \in Nat : \A s \in Strings(S) : Size(s) = n => s \in T}
<1>1. 0 \in N
  BY NoneSize
<1>2. ASSUME NEW n \in Nat, n \in N
      PROVE  n + 1 \in N
  <2>1. ASSUME NEW s \in Strings(S), Size(s) = n + 1
        PROVE  s \in T
    <3>1. s # None
      BY <2>1, NoneType
    <3>2. PICK a \in S, t \in Strings(S) : s = Cat(One(a), t) /\ Size(s) = Size(t) + 1
      BY <3>1, FirstOf
    <3>3. Size(t) = n
      BY <2>1, <3>2, SizeIsNat
    <3>4. t \in T
      BY <1>2, <3>3
    <3> QED
      BY <3>2, <3>4
  <2> QED
    BY <2>1
<1> HIDE DEF N
<1>3. Nat \subseteq N
  BY <1>1, <1>2, InductionOnNat
<1>4. ASSUME NEW s \in Strings(S)
      PROVE  s \in T
  BY <1>3, SizeIsNat DEF N
<1> QED
  BY <1>4
=============================================================================
